---- MODULE Spec2Model ----
(***************************************************************************)
(* EmojiCut: sticker segmentation and extraction.                          *)
(*                                                                         *)
(* The module models services/imageProcessor.ts (mergeRects, the component *)
(* scan of processStickerSheet, extractStickerFromRect) and the handlers   *)
(* of App.tsx that call them.  Four specifications share the variables:    *)
(*   MergeSpec    mergeRects applied to bounded rectangle lists            *)
(*   SheetSpec    processStickerSheet applied to bounded pixel buffers     *)
(*   ExtractSpec  extractStickerFromRect applied to bounded crops          *)
(*   CropSpec     App: direct upload, manual crop, reset                   *)
(***************************************************************************)
EXTENDS Integers, Sequences, FiniteSets, TLC

\* ---------------------------------------------------------------- bounds
\* Input rectangles of MergeSpec span any columns of 0..MaxX and one row of
\* 0..MaxRow (the unions formed by the passes span several rows).
MaxX == 1
MaxRow == 1
\* Longest input list of MergeSpec, largest distance threshold tried.
MaxRects == 3
MaxTau == 2
\* Size of the sheets given to processStickerSheet in SheetSpec.
ImgW == 20
ImgH == 20
\* Size of the sources given to extractStickerFromRect in ExtractSpec.
SrcW == 6
SrcH == 5
\* SheetSpec: the sheets that hold several stickers.
WideW == 52
WideH == 11
\* ZipSpec: the longest list that is downloaded.
MaxZip == 3
\* CropSpec: sheets uploaded or generated per run, and the list length up
\* to which manual crops are made.
MaxUploads == 1
MaxSegments == 2
MaxGenerations == 2
MaxNamed == 4
MaxLiveX == 3
MaxLiveRects == 3

\* -------------------------------------------------------- program constants
AlphaThreshold == 20
WhiteThreshold == 240
NoiseCount == 50
NoiseSide == 5
MergeDistance == 15
Padding == 2
StrokeWidth == 6
BatchSize == 3

VARIABLES
  \* mergeRects (MergeSpec)
  rects,        \* the argument list
  tau,          \* distanceThreshold
  merged,       \* let merged
  changed,      \* let changed
  passes,       \* number of completed passes of the while loop
  mpc,          \* "loop" while in the while loop, "done" once returned, "off"
  \* processStickerSheet (SheetSpec)
  image,        \* the canvas: [width, height, data], data[y * width + x] = RGBA
  visited,      \* indices whose entry of the Uint8Array visited is 1
  rawRects,     \* const rawRects
  scanAt,       \* y * width + x of the two scan loops
  stack,        \* the flood-fill stack of <<x, y>>
  box,          \* minX, maxX, minY, maxY, count of the fill in progress
  mergedRects,  \* const mergedRects
  finalSegments,\* const finalSegments
  exti,         \* i of the extraction loop (1-based)
  nextId,       \* number of identifiers generateId has handed out
  spc,          \* position in processStickerSheet
  \* extractStickerFromRect (ExtractSpec)
  argSource,    \* the argument source: [width, height, data]
  argRect,      \* the argument rect
  returned,     \* the value returned
  xpc,          \* "call" before the call, "done" after it, "off"
  \* App (CropSpec)
  appMode,          \* useState appMode
  status,           \* useState status: [stage, progress, message]
  segments,         \* useState segments
  originalImage,    \* useState originalImage: the src of the loaded image
  originalImageEl,  \* useState originalImageEl: the loaded image
  isManualCropping, \* useState isManualCropping
  invocations,      \* the processFile calls made so far, each with its position
  namings,          \* the runAiNaming calls under way, each with its position
  manualCrop,       \* rect and newSegment of the last confirm of the modal
  \* generateStickerName (NameSpec)
  nameCall,     \* the credentials in reach and what the remote call does
  nameResult,   \* how the promise settled
  \* handleDownloadAll (ZipSpec)
  zip,          \* the archive: its entries in the order written
  \* the environment
  uploadCap,    \* how many sheets the user uploads or generates in the run
  canvasOk,     \* which canvases getContext('2d') gives a context for
  printer       \* the state of CutePrinter2D and its call of generateStickerSheet

mergeVars == <<rects, tau, merged, changed, passes, mpc>>
sheetVars == <<image, visited, rawRects, scanAt, stack, box, mergedRects,
               finalSegments, exti, spc>>
extractVars == <<argSource, argRect, returned, xpc>>
appRest == <<appMode, segments, originalImage, originalImageEl, isManualCropping,
             invocations, namings, manualCrop>>
appVars == <<status, appRest>>
helperVars == <<nameCall, nameResult, zip, uploadCap, canvasOk, printer>>
vars == <<mergeVars, sheetVars, nextId, extractVars, appVars, helperVars>>

Null == [null |-> TRUE]

\* The parts of the program a specification does not run.
MergeOff ==
  /\ rects = <<>> /\ tau = 0 /\ merged = <<>> /\ changed = FALSE
  /\ passes = 0 /\ mpc = "off"

ExtractOff ==
  argSource = Null /\ argRect = Null /\ returned = Null /\ xpc = "off"

\* Every canvas gets its context.
AllCanvases == [sheet |-> TRUE, cutout |-> TRUE, silhouette |-> TRUE, final |-> TRUE]

HelpersOff ==
  /\ nameCall = Null /\ nameResult = Null /\ zip = Null
  /\ uploadCap = MaxUploads /\ canvasOk = AllCanvases /\ printer = Null

SheetOff ==
  /\ image = Null /\ visited = {} /\ rawRects = <<>> /\ scanAt = 0
  /\ stack = <<>> /\ box = Null /\ mergedRects = <<>> /\ finalSegments = <<>>
  /\ exti = 1 /\ spc = "off"

\* The state of App after its first render.
AppConstructed ==
  /\ appMode = "generate"
  /\ status = [stage |-> "idle", progress |-> 0, message |-> <<"">>]
  /\ segments = <<>>
  /\ originalImage = Null
  /\ originalImageEl = Null
  /\ isManualCropping = FALSE
  /\ invocations = <<>>
  /\ namings = <<>>
  /\ manualCrop = Null

Max2(a, b) == IF a > b THEN a ELSE b
Min2(a, b) == IF a < b THEN a ELSE b
Max3(a, b, c) == Max2(a, Max2(b, c))

\* ------------------------------------------------------------ mergeRects
MkRect(x0, x1, y0, y1) == [minX |-> x0, maxX |-> x1, minY |-> y0, maxY |-> y1]

XDist(current, other) ==
  Max3(0, current.minX - other.maxX, other.minX - current.maxX)
YDist(current, other) ==
  Max3(0, current.minY - other.maxY, other.minY - current.maxY)

\* Mutants of the closeness test: off by one either way.
IsCloseOffByOne(current, other, distanceThreshold) ==
  /\ XDist(current, other) < distanceThreshold - 1
  /\ YDist(current, other) < distanceThreshold - 1

IsCloseInclusive(current, other, distanceThreshold) ==
  /\ XDist(current, other) <= distanceThreshold
  /\ YDist(current, other) <= distanceThreshold

IsClose(current, other, distanceThreshold) ==
  /\ XDist(current, other) < distanceThreshold
  /\ YDist(current, other) < distanceThreshold

\* A variant of the union that takes the other rectangle for the union.
UnionRectKeepsOther(current, other) ==
  [minX |-> other.minX, minY |-> other.minY, maxX |-> other.maxX, maxY |-> other.maxY]

\* Mutant of the union: the Y bounds are not extended.
UnionRectXOnly(current, other) ==
  [minX |-> Min2(current.minX, other.minX),
   minY |-> current.minY,
   maxX |-> Max2(current.maxX, other.maxX),
   maxY |-> current.maxY]

UnionRect(current, other) ==
  [minX |-> Min2(current.minX, other.minX),
   minY |-> Min2(current.minY, other.minY),
   maxX |-> Max2(current.maxX, other.maxX),
   maxY |-> Max2(current.maxY, other.maxY)]

\* The inner for loop (j) for one i: the running union, the indices absorbed
\* and whether anything was absorbed.
RECURSIVE InnerLoop(_, _, _, _, _)
InnerLoop(m, current, j, vis, t) ==
  IF j > Len(m) THEN [current |-> current, visited |-> vis, changed |-> FALSE]
  ELSE IF j \in vis THEN InnerLoop(m, current, j + 1, vis, t)
  ELSE IF IsClose(current, m[j], t)
       THEN [InnerLoop(m, UnionRect(current, m[j]), j + 1, vis \cup {j}, t)
               EXCEPT !.changed = TRUE]
       ELSE InnerLoop(m, current, j + 1, vis, t)

\* The outer for loop (i) of one pass.
RECURSIVE OuterLoop(_, _, _, _, _, _)
OuterLoop(m, i, vis, newMerged, ch, t) ==
  IF i > Len(m) THEN [merged |-> newMerged, changed |-> ch]
  ELSE IF i \in vis THEN OuterLoop(m, i + 1, vis, newMerged, ch, t)
  ELSE LET r == InnerLoop(m, m[i], i + 1, vis \cup {i}, t)
       IN  OuterLoop(m, i + 1, r.visited, Append(newMerged, r.current),
                     ch \/ r.changed, t)

\* A pass that unites without absorbing (visited.add(j) lost): every
\* rectangle stays in the list, grown by the ones near it.
MergePassNoAbsorb(m, t) ==
  [merged |-> [i \in 1..Len(m) |-> InnerLoop(m, m[i], i + 1, {}, t).current],
   changed |-> \E i \in 1..Len(m) : InnerLoop(m, m[i], i + 1, {}, t).changed]

\* A pass that never reports a merge (the assignment changed = true lost).
MergePassNoFlag(m, t) ==
  [merged |-> OuterLoop(m, 1, {}, <<>>, FALSE, t).merged, changed |-> FALSE]

\* One iteration of while (changed): the new list and the new flag.
MergePass(m, t) == OuterLoop(m, 1, {}, <<>>, FALSE, t)

\* mergeRects as a function: passes until one performs no merge.
RECURSIVE MergeLoop(_, _)
MergeLoop(m, t) ==
  LET p == MergePass(m, t) IN IF p.changed THEN MergeLoop(p.merged, t) ELSE p.merged

MergeRects(rs, t) == MergeLoop(rs, t)

\* ---- MergeSpec: the inputs and the steps of the while loop
XSpans == {s \in (0..MaxX) \X (0..MaxX) : s[1] <= s[2]}
YSpans == {<<r, r>> : r \in 0..MaxRow}
RectSet == {MkRect(xs[1], xs[2], ys[1], ys[2]) : xs \in XSpans, ys \in YSpans}
RectLists == UNION {[1..n -> RectSet] : n \in 0..MaxRects}

MergeInit ==
  /\ SheetOff
  /\ ExtractOff
  /\ HelpersOff
  /\ AppConstructed
  /\ nextId = 0
  /\ rects \in RectLists
  /\ tau \in 0..MaxTau
  /\ merged = rects
  /\ changed = TRUE
  /\ passes = 0
  /\ mpc = "loop"

MergePassStep ==
  /\ mpc = "loop"
  /\ changed
  /\ LET p == MergePass(merged, tau)
     IN  /\ merged' = p.merged
         /\ changed' = p.changed
  /\ passes' = passes + 1
  /\ UNCHANGED <<rects, tau, mpc>>
  /\ UNCHANGED <<sheetVars, nextId, extractVars, helperVars, appVars>>

MergeReturn ==
  /\ mpc = "loop"
  /\ ~changed
  /\ mpc' = "done"
  /\ UNCHANGED <<rects, tau, merged, changed, passes>>
  /\ UNCHANGED <<sheetVars, nextId, extractVars, helperVars, appVars>>

MergeNext == MergePassStep \/ MergeReturn

MergeSpec == MergeInit /\ [][MergeNext]_vars

\* ---- MergeLiveSpec: rows of unit squares, the loop run to its return
LiveRectSet == {MkRect(x, x, 0, 0) : x \in 0..MaxLiveX}
LiveRectLists == UNION {[1..n -> LiveRectSet] : n \in 0..MaxLiveRects}

MergeLiveInit ==
  /\ SheetOff
  /\ ExtractOff
  /\ HelpersOff
  /\ AppConstructed
  /\ nextId = 0
  /\ rects \in LiveRectLists
  /\ tau \in 0..MaxTau
  /\ merged = rects
  /\ changed = TRUE
  /\ passes = 0
  /\ mpc = "loop"

\* The while loop is synchronous code: it goes on until it returns.
MergeLiveSpec == MergeLiveInit /\ [][MergeNext]_vars /\ WF_vars(MergeNext)

\* ---------------------------------------------------------- isBackground
\* Mutant of the classifier: only transparency counts as background.
IsBackgroundAlphaOnly(px) == px[4] < AlphaThreshold

IsBackground(px) ==
  IF px[4] < AlphaThreshold THEN TRUE
  ELSE px[1] > WhiteThreshold /\ px[2] > WhiteThreshold /\ px[3] > WhiteThreshold

\* ------------------------------------------------ extractStickerFromRect
\* 1. the crop region
CropOf(source, rect) ==
  LET finalX == Max2(0, rect.minX - Padding)
      finalY == Max2(0, rect.minY - Padding)
  IN  [x |-> finalX,
       y |-> finalY,
       w |-> Min2(source.width - finalX, (rect.maxX - rect.minX) + Padding * 2),
       h |-> Min2(source.height - finalY, (rect.maxY - rect.minY) + Padding * 2)]

\* 2. drawImage + getImageData: the pixels of the crop, row-major
SegPixels(source, crop) ==
  [k \in 0..(crop.w * crop.h - 1) |->
     source.data[(crop.y + (k \div crop.w)) * source.width + crop.x + (k % crop.w)]]

\* The stack after the two seeding loops: top and bottom row, then the
\* left and right column.
EdgeSeeds(w, h) ==
  [i \in 1..(2 * w) |->
     IF i % 2 = 1 THEN <<(i - 1) \div 2, 0>> ELSE <<(i - 1) \div 2, h - 1>>]
  \o [i \in 1..(2 * Max2(0, h - 2)) |->
     IF i % 2 = 1 THEN <<0, 1 + (i - 1) \div 2>> ELSE <<w - 1, 1 + (i - 1) \div 2>>]

\* The four bounds-checked pushes of the exterior fill, in source order.
ExteriorPushes(cx, cy, w, h) ==
  (IF cx > 0 THEN <<(<<cx - 1, cy>>)>> ELSE <<>>)
  \o (IF cx < w - 1 THEN <<(<<cx + 1, cy>>)>> ELSE <<>>)
  \o (IF cy > 0 THEN <<(<<cx, cy - 1>>)>> ELSE <<>>)
  \o (IF cy < h - 1 THEN <<(<<cx, cy + 1>>)>> ELSE <<>>)

\* One iteration of while (stack.length > 0) on [stack, isExterior]; no
\* change once the stack is empty.
ExteriorPop(st, segPixels, w, h) ==
  IF st.stack = <<>> THEN st
  ELSE LET top == st.stack[Len(st.stack)]
           rest == SubSeq(st.stack, 1, Len(st.stack) - 1)
           visitIdx == top[2] * w + top[1]
       IN  IF visitIdx \notin st.isExterior /\ IsBackground(segPixels[visitIdx])
           THEN [stack |-> rest \o ExteriorPushes(top[1], top[2], w, h),
                 isExterior |-> st.isExterior \cup {visitIdx}]
           ELSE [stack |-> rest, isExterior |-> st.isExterior]

ExteriorPop4(st, segPixels, w, h) ==
  ExteriorPop(ExteriorPop(ExteriorPop(ExteriorPop(st, segPixels, w, h),
    segPixels, w, h), segPixels, w, h), segPixels, w, h)

ExteriorPop16(st, segPixels, w, h) ==
  ExteriorPop4(ExteriorPop4(ExteriorPop4(ExteriorPop4(st, segPixels, w, h),
    segPixels, w, h), segPixels, w, h), segPixels, w, h)

\* Mutant of the fill: every background pixel is marked, enclosed or not.
ExteriorFillEveryBackground(segPixels, w, h) ==
  {k \in DOMAIN segPixels : IsBackground(segPixels[k])}

\* while (stack.length > 0), sixteen iterations at a time: the indices
\* marked in isExterior when the stack is empty.
RECURSIVE ExteriorLoop(_, _, _, _)
ExteriorLoop(st, segPixels, w, h) ==
  IF st.stack = <<>> THEN st.isExterior
  ELSE ExteriorLoop(ExteriorPop16(st, segPixels, w, h), segPixels, w, h)

ExteriorFill(segPixels, w, h) ==
  ExteriorLoop([stack |-> EdgeSeeds(w, h), isExterior |-> {}], segPixels, w, h)

\* The loop that clears the alpha of every marked pixel.
ClearExterior(segPixels, isExterior) ==
  [k \in DOMAIN segPixels |->
     IF k \in isExterior THEN <<segPixels[k][1], segPixels[k][2], segPixels[k][3], 0>>
     ELSE segPixels[k]]

\* extractStickerFromRect.  The outline (steps 3 to 5) changes no field but
\* dataUrl; dataUrl stands for the cutout it is drawn from: the crop size and
\* the pixels of segCanvas after putImageData.
ExtractStickerFromRect(source, rect, defaultName, id) ==
  LET crop == CropOf(source, rect)
  IN  IF crop.w <= 0 \/ crop.h <= 0 THEN Null
      ELSE IF ~(canvasOk.cutout /\ canvasOk.silhouette /\ canvasOk.final) THEN Null
      ELSE LET segPixels == SegPixels(source, crop)
               isExterior == ExteriorFill(segPixels, crop.w, crop.h)
           IN  [id |-> id,
                dataUrl |-> [w |-> crop.w, h |-> crop.h,
                             pixels |-> ClearExterior(segPixels, isExterior)],
                originalX |-> crop.x,
                originalY |-> crop.y,
                width |-> crop.w + StrokeWidth * 2,
                height |-> crop.h + StrokeWidth * 2,
                name |-> defaultName,
                isNaming |-> FALSE]

\* Mutant of the default name: the loop index itself.
DefaultNameFromZero(k) == <<"sticker", k - 1>>

\* `sticker_${k}`
DefaultName(k) == <<"sticker", k>>

\* --------------------------------------------------- processStickerSheet
\* The noise filter at the end of a fill.
KeepsComponent(count, w, h) == count > NoiseCount /\ w > NoiseSide /\ h > NoiseSide

\* The first index at or after `from` at which the scan starts a fill: not
\* visited and not background; -1 when the loops run to the end.
NextStart(img, vis, from) ==
  LET cands == {k \in from..(img.width * img.height - 1) :
                  k \notin vis /\ ~IsBackground(img.data[k])}
  IN  IF cands = {} THEN -1 ELSE CHOOSE k \in cands : \A j \in cands : k <= j

\* Mutant of the neighbour list: the diagonal neighbours are added.
NeighborsDiagonal(cx, cy) ==
  << <<cx + 1, cy>>, <<cx - 1, cy>>, <<cx, cy + 1>>, <<cx, cy - 1>>,
     <<cx + 1, cy + 1>>, <<cx - 1, cy - 1>>, <<cx - 1, cy + 1>>, <<cx + 1, cy - 1>> >>

\* The neighbours of (cx, cy) in source order.
Neighbors(cx, cy) == << <<cx + 1, cy>>, <<cx - 1, cy>>, <<cx, cy + 1>>, <<cx, cy - 1>> >>

\* A variant of the loop over the neighbours that pushes a neighbour without
\* marking it visited.
RECURSIVE PushNeighborsUnmarked(_, _, _, _, _)
PushNeighborsUnmarked(img, nbs, n, vis, stk) ==
  IF n > Len(nbs) THEN [visited |-> vis, stack |-> stk]
  ELSE LET nx == nbs[n][1]
           ny == nbs[n][2]
           nVisitIdx == ny * img.width + nx
       IN  IF /\ nx >= 0 /\ nx < img.width /\ ny >= 0 /\ ny < img.height
              /\ nVisitIdx \notin vis
              /\ ~IsBackground(img.data[nVisitIdx])
           THEN PushNeighborsUnmarked(img, nbs, n + 1, vis, Append(stk, <<nx, ny>>))
           ELSE PushNeighborsUnmarked(img, nbs, n + 1, vis, stk)

\* for (const [nx, ny] of neighbors): the visited set and the stack after
\* the neighbours from position n on.
RECURSIVE PushNeighbors(_, _, _, _, _)
PushNeighbors(img, nbs, n, vis, stk) ==
  IF n > Len(nbs) THEN [visited |-> vis, stack |-> stk]
  ELSE LET nx == nbs[n][1]
           ny == nbs[n][2]
           nVisitIdx == ny * img.width + nx
       IN  IF /\ nx >= 0 /\ nx < img.width /\ ny >= 0 /\ ny < img.height
              /\ nVisitIdx \notin vis
              /\ ~IsBackground(img.data[nVisitIdx])
           THEN PushNeighbors(img, nbs, n + 1, vis \cup {nVisitIdx},
                              Append(stk, <<nx, ny>>))
           ELSE PushNeighbors(img, nbs, n + 1, vis, stk)

\* onProgress as App passes it: setStatus(prev => ({ ...prev, message: msg }))
OnProgress(st, msg) == [st EXCEPT !.message = msg]

\* The state of processStickerSheet(img) at the start of the scan loops.
SheetStart(img) ==
  /\ image = img /\ visited = {} /\ rawRects = <<>> /\ scanAt = 0
  /\ stack = <<>> /\ box = Null /\ mergedRects = <<>> /\ finalSegments = <<>>
  /\ exti = 1 /\ spc = "scan"

\* The scan loops run on to the next unvisited non-background pixel and
\* start its fill.
ScanStart ==
  /\ spc = "scan"
  /\ LET k == NextStart(image, visited, scanAt)
     IN  /\ k >= 0
         /\ scanAt' = k
         /\ visited' = visited \cup {k}
         /\ stack' = << <<k % image.width, k \div image.width>> >>
         /\ box' = [minX |-> k % image.width, maxX |-> k % image.width,
                    minY |-> k \div image.width, maxY |-> k \div image.width,
                    count |-> 0]
  /\ spc' = "fill"
  /\ UNCHANGED <<image, rawRects, mergedRects, finalSegments, exti, nextId, status>>

\* One iteration of while (stack.length > 0).
FillPop ==
  /\ spc = "fill"
  /\ stack # <<>>
  /\ LET top == stack[Len(stack)]
         cx == top[1]
         cy == top[2]
         r == PushNeighbors(image, Neighbors(cx, cy), 1, visited,
                            SubSeq(stack, 1, Len(stack) - 1))
     IN  /\ box' = [minX |-> Min2(box.minX, cx), maxX |-> Max2(box.maxX, cx),
                    minY |-> Min2(box.minY, cy), maxY |-> Max2(box.maxY, cy),
                    count |-> box.count + 1]
         /\ visited' = r.visited
         /\ stack' = r.stack
  /\ UNCHANGED <<image, rawRects, scanAt, mergedRects, finalSegments, exti,
                 nextId, spc, status>>

\* The fill is over: the noise filter, then the scan goes on after x.
FillEnd ==
  /\ spc = "fill"
  /\ stack = <<>>
  /\ rawRects' =
       IF KeepsComponent(box.count, box.maxX - box.minX, box.maxY - box.minY)
       THEN Append(rawRects, MkRect(box.minX, box.maxX, box.minY, box.maxY))
       ELSE rawRects
  /\ box' = Null
  /\ scanAt' = scanAt + 1
  /\ spc' = "scan"
  /\ UNCHANGED <<image, visited, stack, mergedRects, finalSegments, exti, nextId,
                 status>>

\* The scan loops run to the end of the buffer; the first progress message.
ScanEnd ==
  /\ spc = "scan"
  /\ NextStart(image, visited, scanAt) < 0
  /\ scanAt' = image.width * image.height
  /\ status' = OnProgress(status, <<"Detected", Len(rawRects), "components. Grouping...">>)
  /\ spc' = "group"
  /\ UNCHANGED <<image, visited, rawRects, stack, box, mergedRects,
                 finalSegments, exti, nextId>>

\* const mergedRects = mergeRects(rawRects, 15); the second progress message.
GroupRects ==
  /\ spc = "group"
  /\ mergedRects' = MergeRects(rawRects, MergeDistance)
  /\ status' = OnProgress(status, <<"Identified", Len(mergedRects'), "stickers. Extracting...">>)
  /\ exti' = 1
  /\ spc' = "extract"
  /\ UNCHANGED <<image, visited, rawRects, scanAt, stack, box, finalSegments, nextId>>

\* One iteration of the extraction loop.
ExtractNext ==
  /\ spc = "extract"
  /\ exti <= Len(mergedRects)
  /\ LET segment == ExtractStickerFromRect(image, mergedRects[exti],
                                           DefaultName(exti), nextId + 1)
     IN  IF segment # Null
         THEN /\ finalSegments' = Append(finalSegments, segment)
              /\ nextId' = nextId + 1
         ELSE UNCHANGED <<finalSegments, nextId>>
  /\ exti' = exti + 1
  /\ UNCHANGED <<image, visited, rawRects, scanAt, stack, box, mergedRects, spc,
                 status>>

\* return finalSegments
SheetReturn ==
  /\ spc = "extract"
  /\ exti > Len(mergedRects)
  /\ spc' = "done"
  /\ UNCHANGED <<image, visited, rawRects, scanAt, stack, box, mergedRects,
                 finalSegments, exti, nextId, status>>

SheetStep == ScanStart \/ FillPop \/ FillEnd \/ ScanEnd \/ GroupRects
             \/ ExtractNext \/ SheetReturn

\* ---- SheetSpec: the sheets and the steps of processStickerSheet
White == <<255, 255, 255, 255>>
NearWhite == <<241, 241, 241, 255>>
OffWhite == <<240, 255, 255, 255>>
Black == <<0, 0, 0, 255>>
Faint == <<0, 0, 0, 19>>
Ink20 == <<0, 0, 0, 20>>
White20 == <<255, 255, 255, 20>>

\* bg and alt are background colours, fg is not.
Themes == {[bg |-> White, fg |-> Black, alt |-> Faint],
           [bg |-> Faint, fg |-> OffWhite, alt |-> NearWhite],
           [bg |-> NearWhite, fg |-> Ink20, alt |-> White20]}

Block(x, y, w, h, c) == [x |-> x, y |-> y, w |-> w, h |-> h, c |-> c]

InBlock(b, x, y) == b.x <= x /\ x < b.x + b.w /\ b.y <= y /\ y < b.y + b.h

\* A w x h buffer of colour bg with the blocks painted over it in order.
Render(w, h, bg, blocks) ==
  [width |-> w, height |-> h,
   data |-> [k \in 0..(w * h - 1) |->
               LET on == {i \in 1..Len(blocks) : InBlock(blocks[i], k % w, k \div w)}
               IN  IF on = {} THEN bg
                   ELSE blocks[CHOOSE i \in on : \A j \in on : j <= i].c]]

MainSizes == {<<10, 10>>, <<6, 10>>, <<10, 6>>, <<7, 7>>, <<7, 8>>, <<8, 7>>}

\* Where the main block is put: 5 pixels from the top and left borders (at
\* least 5 from the others), in the top left corner, in the bottom right one.
MainOrigins(sz) ==
  {<<5, 5>>, <<0, 0>>, <<ImgW - sz[1], ImgH - sz[2]>>}

\* What is painted after the main block m: nothing, a spur of one or two
\* pixels on its right side, a block touching its corner diagonally, a block
\* one pixel to its right, a background-coloured hole inside it.
Extras(m, th) ==
  {<<>>,
   <<Block(m.x + m.w, m.y, 1, 1, th.fg)>>,
   <<Block(m.x + m.w, m.y, 2, 1, th.fg)>>,
   <<Block(m.x + m.w, m.y + m.h, 7, 8, th.fg)>>,
   <<Block(m.x + m.w + 1, m.y, 7, 8, th.fg)>>,
   <<Block(m.x + 1, m.y + 1, 2, 2, th.alt)>>}

\* Sheets with 7 x 8 blocks: three kept apart, two close and one apart, two
\* apart with a speck between them.  The leftmost block is not always the
\* first one the scan meets.
WideSheets ==
  {Render(WideW, WideH, White,
          <<Block(0, 2, 7, 8, Black), Block(22, 0, 7, 8, Black), Block(44, 1, 7, 8, Black)>>),
   Render(WideW, WideH, White,
          <<Block(0, 1, 7, 8, Black), Block(10, 0, 7, 8, Black), Block(44, 2, 7, 8, Black)>>),
   Render(WideW, WideH, White,
          <<Block(0, 1, 7, 8, Black), Block(25, 0, 2, 2, Black), Block(44, 0, 7, 8, Black)>>)}

Sheets ==
  WideSheets \cup
  UNION {
    UNION {
      UNION {
        {Render(ImgW, ImgH, th.bg, <<Block(o[1], o[2], sz[1], sz[2], c)>> \o ex) :
           ex \in Extras(Block(o[1], o[2], sz[1], sz[2], c), th)}
        : c \in {th.fg, th.alt}, o \in MainOrigins(sz)}
      : sz \in MainSizes}
    : th \in Themes}

\* processStickerSheet(img, onProgress) called in a freshly rendered App, after
\* onProgress("Scanning image for content...").
SheetInit ==
  /\ MergeOff
  /\ ExtractOff
  /\ HelpersOff
  /\ \E img \in Sheets : SheetStart(img)
  /\ nextId = 0
  /\ appMode = "generate"
  /\ status = [stage |-> "idle", progress |-> 0,
               message |-> <<"Scanning image for content...">>]
  /\ segments = <<>>
  /\ originalImage = Null
  /\ originalImageEl = Null
  /\ isManualCropping = FALSE
  /\ invocations = <<>>
  /\ namings = <<>>
  /\ manualCrop = Null

SheetNext == SheetStep /\ UNCHANGED <<mergeVars, extractVars, helperVars, appRest>>

SheetSpec == SheetInit /\ [][SheetNext]_vars

\* ---- ExtractSpec: the sources, the rectangles and the call
\* A 3 x 3 block at o; its centre pixel in colour hole; then nothing, the
\* middle pixel of its top side, or its top left pixel, back in colour bg.
RingBlocks(o, th, hole) ==
  {<<Block(o[1], o[2], 3, 3, th.fg), Block(o[1] + 1, o[2] + 1, 1, 1, hole)>> \o gap :
     gap \in {<<>>,
              <<Block(o[1] + 1, o[2], 1, 1, th.bg)>>,
              <<Block(o[1], o[2], 1, 1, th.bg)>>}}

RingOrigins == {<<1, 1>>, <<0, 0>>, <<SrcW - 3, SrcH - 3>>}

Sources ==
  UNION {
    UNION {{Render(SrcW, SrcH, th.bg, bs) : bs \in RingBlocks(o, th, hole)}
             : o \in RingOrigins, hole \in {th.bg, th.alt, th.fg}}
    : th \in Themes}

\* The rectangles with inclusive bounds inside a w x h source.
RectsInside(w, h) ==
  {MkRect(x0, x1, y0, y1) : x0 \in 0..(w - 1), x1 \in 0..(w - 1),
                            y0 \in 0..(h - 1), y1 \in 0..(h - 1)}
  \cap [minX : 0..(w - 1), maxX : 0..(w - 1), minY : 0..(h - 1), maxY : 0..(h - 1)]

ExtractInit ==
  /\ MergeOff
  /\ SheetOff
  /\ AppConstructed
  /\ HelpersOff
  /\ nextId = 0
  /\ argSource \in Sources
  /\ argRect \in {r \in RectsInside(SrcW, SrcH) : r.minX <= r.maxX /\ r.minY <= r.maxY}
  /\ returned = Null
  /\ xpc = "call"

ExtractCall ==
  /\ xpc = "call"
  /\ returned' = ExtractStickerFromRect(argSource, argRect, DefaultName(1), 1)
  /\ xpc' = "done"
  /\ UNCHANGED <<argSource, argRect>>
  /\ UNCHANGED <<mergeVars, sheetVars, nextId, appVars, helperVars>>

ExtractNextStep == ExtractCall

ExtractSpec == ExtractInit /\ [][ExtractNextStep]_vars

\* ------------------------------------------------------------------ App
\* The uploaded sheets are half as wide and tall as the scanned ones: a
\* sheet with one sticker, a blank sheet, a file that is no image.
UploadW == ImgW \div 2
UploadH == ImgH \div 2
GoodSheet == Render(UploadW, UploadH, White, <<Block(1, 1, 7, 8, Black)>>)
BlankSheet == Render(UploadW, UploadH, White, <<>>)
UploadFiles == {"good.png", "blank.png", "broken.png"}

\* What the browser decodes the file to; Null when it is no image.
Decode(file) ==
  CASE file = "good.png" -> GoodSheet
    [] file = "blank.png" -> BlankSheet
    [] OTHER -> Null

\* The messages are given in English.
StatusLoading == [stage |-> "analyzing_layout", progress |-> 10, message |-> <<"loading image...">>]
StatusSegmenting == [stage |-> "segmenting", progress |-> 30, message |-> <<"detecting bounds...">>]
StatusNothingFound == [stage |-> "idle", progress |-> 0, message |-> <<"no stickers detected">>]
StatusError == [stage |-> "idle", progress |-> 0, message |-> <<"error processing image">>]
StatusNaming == [stage |-> "ai_naming", progress |-> 60, message |-> <<"naming...">>]
StatusComplete == [stage |-> "complete", progress |-> 100, message |-> <<"done!">>]
StatusIdle == [stage |-> "idle", progress |-> 0, message |-> <<"">>]

\* No call of processStickerSheet is on the stack: handlers and
\* continuations run only between tasks.
BetweenTasks == spc = "off"

IdsOf(items) == {items[k].id : k \in 1..Len(items)}

\* A variant without batches: every item from i on.
BatchIdsAll(items, i) ==
  {items[k].id : k \in {k \in 1..Len(items) : i < k}}

\* itemsToName.slice(i, i + batchSize), as the set of ids (i is 0-based).
BatchIds(items, i) ==
  {items[k].id : k \in {k \in 1..Len(items) : i < k /\ k <= i + BatchSize}}

\* The synchronous part of runAiNaming(itemsToName) on the segment list segs:
\* the status, the segment list and the calls in flight after it.
RunAiNaming(segs, itemsToName) ==
  [status |-> IF Len(itemsToName) = 0 THEN StatusComplete ELSE StatusNaming,
   segments |-> [k \in 1..Len(segs) |->
                   IF segs[k].id \in IdsOf(itemsToName)
                   THEN [segs[k] EXCEPT !.isNaming = TRUE] ELSE segs[k]],
   namings |-> IF Len(itemsToName) = 0 THEN namings
               ELSE Append(namings,
                      [items |-> [k \in 1..Len(itemsToName) |-> itemsToName[k].id],
                       i |-> 0,
                       pending |-> BatchIds(itemsToName, 0),
                       completed |-> 0])]

\* A call of processFile that has returned: its locals are gone.
Returned == [pc |-> "done", file |-> "", skipAiNaming |-> FALSE, printer |-> FALSE]

\* appMode becomes 'cut': the printer that made the requests is unmounted.
Unmounted(invs) == [k \in 1..Len(invs) |-> [invs[k] EXCEPT !.printer = FALSE]]

\* processFile up to await loadImage(file).
ProcessFileStart ==
  /\ appMode' = "cut"
  /\ status' = StatusLoading
  /\ segments' = <<>>

\* The upload control of the printer, shown in generate mode.
HandleDirectUpload(file) ==
  /\ BetweenTasks
  /\ appMode = "generate"
  /\ Len(invocations) < uploadCap
  /\ ProcessFileStart
  /\ invocations' = Append(Unmounted(invocations),
                           [pc |-> "load", file |-> file, skipAiNaming |-> TRUE,
                            printer |-> FALSE])
  /\ UNCHANGED <<originalImage, originalImageEl, isManualCropping, namings, manualCrop>>
  /\ UNCHANGED <<mergeVars, sheetVars, nextId, extractVars, helperVars>>

\* The generate button of the printer, shown in generate mode and disabled
\* while the printer is generating: the request for a sheet is under way.
HandleGenerate(file) ==
  /\ BetweenTasks
  /\ appMode = "generate"
  /\ \A k \in 1..Len(invocations) :
       ~(invocations[k].pc = "generate" /\ invocations[k].printer)
  /\ Len(invocations) < uploadCap
  /\ invocations' = Append(invocations,
                           [pc |-> "generate", file |-> file, skipAiNaming |-> FALSE,
                            printer |-> TRUE])
  /\ UNCHANGED <<appMode, status, segments, originalImage, originalImageEl,
                 isManualCropping, namings, manualCrop>>
  /\ UNCHANGED <<mergeVars, sheetVars, nextId, extractVars, helperVars>>

\* The sheet has come, onGenerated has fetched it and made the file:
\* processFile(file) runs up to await loadImage(file).
HandleGenerated(n) ==
  /\ BetweenTasks
  /\ invocations[n].pc = "generate"
  /\ ProcessFileStart
  /\ invocations' = [Unmounted(invocations) EXCEPT ![n].pc = "load"]
  /\ UNCHANGED <<originalImage, originalImageEl, isManualCropping, namings, manualCrop>>
  /\ UNCHANGED <<mergeVars, sheetVars, nextId, extractVars, helperVars>>

\* The request fails: the printer shows the error, App is not called.
GenerationFails(n) ==
  /\ BetweenTasks
  /\ invocations[n].pc = "generate"
  /\ invocations' = [invocations EXCEPT ![n] = Returned]
  /\ UNCHANGED <<appMode, status, segments, originalImage, originalImageEl,
                 isManualCropping, namings, manualCrop>>
  /\ UNCHANGED <<mergeVars, sheetVars, nextId, extractVars, helperVars>>

\* img.onload: processFile goes on to the 500 ms delay.
LoadResolves(n) ==
  /\ BetweenTasks
  /\ invocations[n].pc = "load"
  /\ Decode(invocations[n].file) # Null
  /\ originalImage' = [src |-> invocations[n].file]
  /\ originalImageEl' = Decode(invocations[n].file)
  /\ status' = StatusSegmenting
  /\ invocations' = [invocations EXCEPT ![n].pc = "delay"]
  /\ UNCHANGED <<appMode, segments, isManualCropping, namings, manualCrop>>
  /\ UNCHANGED <<mergeVars, sheetVars, nextId, extractVars, helperVars>>

\* A variant of the rejection without the catch block: the status stays.
LoadRejectsUncaught(n) ==
  /\ BetweenTasks
  /\ invocations[n].pc = "load"
  /\ Decode(invocations[n].file) = Null
  /\ invocations' = [invocations EXCEPT ![n] = Returned]
  /\ UNCHANGED <<appMode, status, segments, originalImage, originalImageEl,
                 isManualCropping, namings, manualCrop>>
  /\ UNCHANGED <<mergeVars, sheetVars, nextId, extractVars, helperVars>>

\* img.onerror: the catch block of processFile.
LoadRejects(n) ==
  /\ BetweenTasks
  /\ invocations[n].pc = "load"
  /\ Decode(invocations[n].file) = Null
  /\ status' = StatusError
  /\ invocations' = [invocations EXCEPT ![n] = Returned]
  /\ UNCHANGED <<appMode, segments, originalImage, originalImageEl, isManualCropping,
                 namings, manualCrop>>
  /\ UNCHANGED <<mergeVars, sheetVars, nextId, extractVars, helperVars>>

\* The timer fires: processStickerSheet(img, onProgress) is called and runs
\* up to its scan loops.
DelayElapsed(n) ==
  /\ BetweenTasks
  /\ invocations[n].pc = "delay"
  /\ IF canvasOk.sheet
     THEN /\ image' = Decode(invocations[n].file)
          /\ visited' = {} /\ rawRects' = <<>> /\ scanAt' = 0
          /\ stack' = <<>> /\ box' = Null
          /\ mergedRects' = <<>> /\ finalSegments' = <<>> /\ exti' = 1
          /\ spc' = "scan"
          /\ status' = OnProgress(status, <<"Scanning image for content...">>)
          /\ invocations' = [invocations EXCEPT ![n].pc = "sheet"]
     ELSE \* "Could not get canvas context" is thrown, processFile catches it
          /\ status' = StatusError
          /\ invocations' = [invocations EXCEPT ![n] = Returned]
          /\ UNCHANGED sheetVars
  /\ UNCHANGED <<appMode, segments, originalImage, originalImageEl, isManualCropping,
                 namings, manualCrop>>
  /\ UNCHANGED <<mergeVars, nextId, extractVars, helperVars>>

\* Mutant of the rest of processFile: no test for an empty result.
ProcessFileResumesNoEmptyTest(n) ==
  /\ spc = "done"
  /\ invocations[n].pc = "sheet"
  /\ IF invocations[n].skipAiNaming
     THEN /\ segments' = finalSegments
          /\ status' = StatusComplete
          /\ UNCHANGED namings
     ELSE LET r == RunAiNaming(finalSegments, finalSegments)
          IN  /\ segments' = r.segments
              /\ status' = r.status
              /\ namings' = r.namings
  /\ invocations' = [invocations EXCEPT ![n] = Returned]
  /\ image' = Null /\ visited' = {} /\ rawRects' = <<>> /\ scanAt' = 0
  /\ stack' = <<>> /\ box' = Null /\ mergedRects' = <<>> /\ finalSegments' = <<>>
  /\ exti' = 1 /\ spc' = "off"
  /\ UNCHANGED <<appMode, originalImage, originalImageEl, isManualCropping, manualCrop>>
  /\ UNCHANGED <<mergeVars, nextId, extractVars, helperVars>>

\* processStickerSheet has returned: the rest of processFile.
ProcessFileResumes(n) ==
  /\ spc = "done"
  /\ invocations[n].pc = "sheet"
  /\ IF Len(finalSegments) = 0
     THEN /\ status' = StatusNothingFound
          /\ UNCHANGED <<segments, namings>>
     ELSE IF invocations[n].skipAiNaming
     THEN /\ segments' = finalSegments
          /\ status' = StatusComplete
          /\ UNCHANGED namings
     ELSE LET r == RunAiNaming(finalSegments, finalSegments)
          IN  /\ segments' = r.segments
              /\ status' = r.status
              /\ namings' = r.namings
  /\ invocations' = [invocations EXCEPT ![n] = Returned]
  /\ image' = Null /\ visited' = {} /\ rawRects' = <<>> /\ scanAt' = 0
  /\ stack' = <<>> /\ box' = Null /\ mergedRects' = <<>> /\ finalSegments' = <<>>
  /\ exti' = 1 /\ spc' = "off"
  /\ UNCHANGED <<appMode, originalImage, originalImageEl, isManualCropping, manualCrop>>
  /\ UNCHANGED <<mergeVars, nextId, extractVars, helperVars>>

\* The modal is rendered.
ModalShown == appMode = "cut" /\ isManualCropping /\ originalImage # Null

\* The add button, shown in cut mode when there are stickers.
OpenManualCrop ==
  /\ BetweenTasks
  /\ appMode = "cut"
  /\ Len(segments) > 0
  /\ ~isManualCropping
  /\ isManualCropping' = TRUE
  /\ manualCrop' = Null
  /\ UNCHANGED <<appMode, status, segments, originalImage, originalImageEl,
                 invocations, namings>>
  /\ UNCHANGED <<mergeVars, sheetVars, nextId, extractVars, helperVars>>

\* onClose of the modal.
CloseManualCrop ==
  /\ BetweenTasks
  /\ ModalShown
  /\ isManualCropping' = FALSE
  /\ UNCHANGED <<appMode, status, segments, originalImage, originalImageEl,
                 invocations, namings, manualCrop>>
  /\ UNCHANGED <<mergeVars, sheetVars, nextId, extractVars, helperVars>>

\* Mutant of handleManualCrop: the result is appended without the null test.
HandleManualCropUnchecked(r) ==
  /\ BetweenTasks
  /\ ModalShown
  /\ Len(segments) < MaxSegments
  /\ LET newSegment == ExtractStickerFromRect(originalImageEl, r,
                                              DefaultName(Len(segments) + 1), nextId + 1)
     IN  /\ manualCrop' = [rect |-> r, newSegment |-> newSegment]
         /\ segments' = Append(segments, newSegment)
  /\ isManualCropping' = FALSE
  /\ nextId' = nextId + 1
  /\ UNCHANGED <<appMode, status, originalImage, originalImageEl, invocations, namings>>
  /\ UNCHANGED <<mergeVars, sheetVars, extractVars, helperVars>>

\* onConfirm of the modal.
HandleManualCrop(r) ==
  /\ BetweenTasks
  /\ ModalShown
  /\ Len(segments) < MaxSegments
  /\ IF originalImageEl = Null
     THEN UNCHANGED <<segments, isManualCropping, status, namings, nextId, manualCrop>>
     ELSE LET newSegment == ExtractStickerFromRect(originalImageEl, r,
                                DefaultName(Len(segments) + 1), nextId + 1)
          IN  /\ manualCrop' = [rect |-> r, newSegment |-> newSegment]
              /\ IF newSegment # Null
                 THEN /\ isManualCropping' = FALSE
                      /\ nextId' = nextId + 1
                      /\ IF status.stage = "complete"
                         THEN /\ segments' = Append(segments, newSegment)
                              /\ UNCHANGED <<status, namings>>
                         ELSE LET n == RunAiNaming(Append(segments, newSegment),
                                                   <<newSegment>>)
                              IN  /\ segments' = n.segments
                                  /\ status' = n.status
                                  /\ namings' = n.namings
                 ELSE UNCHANGED <<segments, isManualCropping, status, namings, nextId>>
  /\ UNCHANGED <<appMode, originalImage, originalImageEl, invocations>>
  /\ UNCHANGED <<mergeVars, sheetVars, extractVars, helperVars>>

\* ---------------------------------------------------- generateStickerName
\* Strings that become sticker names are sequences: "cat" is <<"cat">>, the
\* empty string is <<"">>.
\* What the remote call does: the request is rejected (network error,
\* refused credential), or a response comes whose text is empty, is not
\* JSON, is the JSON null, an object without filename, an object with an
\* empty filename, an object with a filename.
Responses ==
  {[kind |-> "reject", text |-> ""],
   [kind |-> "response", text |-> ""],
   [kind |-> "response", text |-> "Sorry, I cannot"],
   [kind |-> "response", text |-> "null"],
   [kind |-> "response", text |-> "{}"],
   [kind |-> "response", text |-> "{\"filename\":\"\"}"],
   [kind |-> "response", text |-> "{\"filename\":\"cat\"}"]}

Thrown == [kind |-> "throw"]
Value(v) == [kind |-> "value", value |-> v]

\* JSON.parse on the texts above.
JsonParse(text) ==
  CASE text = "null" -> Value([type |-> "null", fields |-> {}, filename |-> <<>>])
    [] text = "{}" -> Value([type |-> "object", fields |-> {}, filename |-> <<>>])
    [] text = "{\"filename\":\"\"}" ->
         Value([type |-> "object", fields |-> {"filename"}, filename |-> <<"">>])
    [] text = "{\"filename\":\"cat\"}" ->
         Value([type |-> "object", fields |-> {"filename"}, filename |-> <<"cat">>])
    [] OTHER -> Thrown

\* passedKey || process.env.API_KEY || localStorage.getItem('gemini_api_key');
\* an absent key is "".
GetAiClient(passedKey, envKey, storedKey) ==
  LET apiKey == IF passedKey # "" THEN passedKey
                ELSE IF envKey # "" THEN envKey ELSE storedKey
  IN  IF apiKey = "" THEN Null ELSE [apiKey |-> apiKey]

\* The try block of generateStickerName: what it returns, or that it throws.
NamingTry(response) ==
  IF response.kind = "reject" THEN Thrown
  ELSE IF response.text # ""
  THEN LET data == JsonParse(response.text)
       IN  IF data.kind = "throw" THEN Thrown
           ELSE IF data.value.type = "null" THEN Thrown
           ELSE IF "filename" \in data.value.fields /\ data.value.filename # <<"">>
           THEN Value(data.value.filename)
           ELSE Value(<<"sticker">>)
  ELSE Value(<<"sticker">>)

Resolved(v) == [settled |-> "resolved", value |-> v]
Rejected == [settled |-> "rejected", value |-> <<>>]

\* Mutant of generateStickerName: what the try block throws is not caught.
GenerateStickerNameNoCatch(call) ==
  IF GetAiClient(call.passedKey, call.envKey, call.storedKey) = Null
  THEN Resolved(<<"sticker">>)
  ELSE LET r == NamingTry(call.response)
       IN  IF r.kind = "throw" THEN Rejected ELSE Resolved(r.value)

\* generateStickerName(base64Image, userApiKey) with the keys in reach and
\* the remote call doing call.response: how the promise settles.
GenerateStickerName(call) ==
  IF GetAiClient(call.passedKey, call.envKey, call.storedKey) = Null
  THEN Resolved(<<"sticker">>)
  ELSE LET r == NamingTry(call.response)
       IN  IF r.kind = "throw" THEN Resolved(<<"sticker">>) ELSE Resolved(r.value)

Keys == {"", "AIza"}

NameCalls ==
  [passedKey : Keys, envKey : Keys, storedKey : Keys, response : Responses]

\* What generateStickerName resolves with: the fallback or a name.
NamingResults ==
  {GenerateStickerName(c).value :
     c \in {c \in NameCalls : GenerateStickerName(c).settled = "resolved"}}

\* A variant of the update that also clears isNaming on every other entry.
SetNameClearingAll(prev, id, name) ==
  [k \in 1..Len(prev) |->
     IF prev[k].id = id
     THEN [prev[k] EXCEPT !.name = name, !.isNaming = FALSE]
     ELSE [prev[k] EXCEPT !.isNaming = FALSE]]

\* prev => prev.map(p => p.id === seg.id ? { ...p, name, isNaming: false } : p)
SetName(prev, id, name) ==
  [k \in 1..Len(prev) |->
     IF prev[k].id = id
     THEN [prev[k] EXCEPT !.name = name, !.isNaming = FALSE]
     ELSE prev[k]]

\* generateStickerName resolves for the sticker id of runAiNaming call n: the
\* rest of the async callback, and the rest of runAiNaming when the batch is
\* over.  The progress is kept to the whole percent below the quotient.
NamingCallReturns(n, id, name) ==
  /\ BetweenTasks
  /\ id \in namings[n].pending
  /\ LET nm == namings[n]
         completed == nm.completed + 1
         left == nm.pending \ {id}
         more == nm.i + BatchSize < Len(nm.items)
         progressed ==
           IF Len(nm.items) > 1
           THEN [status EXCEPT !.progress = 60 + (completed * 40) \div Len(nm.items),
                               !.message = <<"naming", completed, "of", Len(nm.items)>>]
           ELSE status
     IN  /\ segments' = SetName(segments, id, name)
         /\ status' = IF left = {} /\ ~more THEN StatusComplete ELSE progressed
         /\ namings' =
              IF left = {} /\ ~more
              THEN [k \in 1..(Len(namings) - 1) |->
                      IF k < n THEN namings[k] ELSE namings[k + 1]]
              ELSE
              [namings EXCEPT ![n] =
                 IF left # {} THEN [nm EXCEPT !.pending = left, !.completed = completed]
                 ELSE [nm EXCEPT !.completed = completed,
                                 !.i = nm.i + BatchSize,
                                 !.pending = {nm.items[k] :
                                    k \in {k \in 1..Len(nm.items) :
                                             /\ nm.i + BatchSize < k
                                             /\ k <= nm.i + 2 * BatchSize}}]]
  /\ UNCHANGED <<appMode, originalImage, originalImageEl, isManualCropping,
                 invocations, manualCrop>>
  /\ UNCHANGED <<mergeVars, sheetVars, nextId, extractVars, helperVars>>

\* The restart button, shown in cut mode.
HandleReset ==
  /\ BetweenTasks
  /\ appMode = "cut"
  /\ segments' = <<>>
  /\ originalImage' = Null
  /\ originalImageEl' = Null
  /\ appMode' = "generate"
  /\ status' = StatusIdle
  /\ manualCrop' = Null
  /\ UNCHANGED <<isManualCropping, invocations, namings>>
  /\ UNCHANGED <<mergeVars, sheetVars, nextId, extractVars, helperVars>>

\* ---- CropSpec: direct uploads, manual crops and restarts
\* The rectangles the modal confirms: one across the edge of the artwork,
\* one beyond the right border of the image, one below its bottom border,
\* one drawn from right to left.
ManualRects ==
  {MkRect(0, 3, 0, 3),
   MkRect(UploadW + Padding, UploadW + Padding + 3, 2, 6),
   MkRect(2, 6, UploadH + Padding, UploadH + Padding + 3),
   MkRect(7, 3, 4, 8)}

CropInit ==
  /\ MergeOff
  /\ SheetOff
  /\ ExtractOff
  /\ HelpersOff
  /\ AppConstructed
  /\ nextId = 0

CropNext ==
  \/ \E file \in UploadFiles : HandleDirectUpload(file)
  \/ \E file \in UploadFiles : HandleGenerate(file)
  \/ \E n \in 1..Len(invocations) : HandleGenerated(n)
  \/ \E n \in 1..Len(invocations) : GenerationFails(n)
  \/ \E n \in 1..Len(invocations) : LoadResolves(n)
  \/ \E n \in 1..Len(invocations) : LoadRejects(n)
  \/ \E n \in 1..Len(invocations) : DelayElapsed(n)
  \/ (SheetStep /\ UNCHANGED <<mergeVars, extractVars, helperVars, appRest>>)
  \/ \E n \in 1..Len(invocations) : ProcessFileResumes(n)
  \/ OpenManualCrop
  \/ CloseManualCrop
  \/ \E r \in ManualRects : HandleManualCrop(r)
  \/ \E n \in 1..Len(namings) : \E id \in namings[n].pending :
       \E name \in NamingResults : NamingCallReturns(n, id, name)
  \/ HandleReset

CropSpec == CropInit /\ [][CropNext]_vars

\* ---- ProcessLiveSpec: as CropSpec, the awaited work always going on
\* What goes on without the user: the image settles, the timer fires,
\* processStickerSheet runs, processFile resumes, a naming call returns.
Continue ==
  \/ \E n \in 1..Len(invocations) : LoadResolves(n)
  \/ \E n \in 1..Len(invocations) : LoadRejects(n)
  \/ \E n \in 1..Len(invocations) : DelayElapsed(n)
  \/ ((ScanStart \/ FillPop \/ FillEnd \/ ScanEnd \/ GroupRects \/ SheetReturn)
      /\ UNCHANGED <<mergeVars, extractVars, helperVars, appRest>>)
  \/ \E n \in 1..Len(invocations) : ProcessFileResumes(n)
  \/ \E n \in 1..Len(namings) : \E id \in namings[n].pending :
       \E name \in NamingResults : NamingCallReturns(n, id, name)

\* The extraction loop has a rectangle left: its next iteration can run.
ExtractionLeft == spc = "extract" /\ exti <= Len(mergedRects)

ExtractionGoes == ExtractNext /\ UNCHANGED <<mergeVars, extractVars, helperVars, appRest>>

\* Weak fairness of ExtractionGoes, with its enabling condition written out.
ExtractionFair == []<>(~ExtractionLeft) \/ []<><<ExtractionGoes>>_vars

\* One sheet is uploaded or generated in a run.  The browser gives every
\* canvas its context, or none to the sheet canvas.
ProcessLiveInit ==
  /\ MergeOff
  /\ SheetOff
  /\ ExtractOff
  /\ AppConstructed
  /\ nextId = 0
  /\ nameCall = Null /\ nameResult = Null /\ zip = Null /\ printer = Null
  /\ uploadCap = 1
  /\ canvasOk \in {AllCanvases, [AllCanvases EXCEPT !.sheet = FALSE]}

ProcessLiveSpec ==
  ProcessLiveInit /\ [][CropNext]_vars /\ WF_vars(Continue) /\ ExtractionFair

\* ---- RaceSpec: as CropSpec, with one more sheet uploaded or generated
RaceInit ==
  /\ MergeOff
  /\ SheetOff
  /\ ExtractOff
  /\ AppConstructed
  /\ nextId = 0
  /\ nameCall = Null /\ nameResult = Null /\ zip = Null /\ printer = Null
  /\ uploadCap = MaxUploads + 1
  /\ canvasOk = AllCanvases

RaceSpec == RaceInit /\ [][CropNext]_vars

\* ---- CanvasSpec: as CropSpec, in a browser that may refuse the 2d context
\* of the sheet canvas, the cutout canvas, the silhouette or the final canvas
CanvasInit ==
  /\ MergeOff
  /\ SheetOff
  /\ ExtractOff
  /\ AppConstructed
  /\ nextId = 0
  /\ nameCall = Null /\ nameResult = Null /\ zip = Null /\ printer = Null
  /\ uploadCap = MaxUploads
  /\ canvasOk \in [{"sheet", "cutout", "silhouette", "final"} -> BOOLEAN]

CanvasSpec == CanvasInit /\ [][CropNext]_vars

\* ------------------------------------------------------ handleDownloadAll
\* A name is the sequence of its parts between underscores: cat_1 is
\* <<"cat", 1>>, so `${seg.name}_${counter}` is Append(seg.name, counter).
WithCounter(name, counter) == Append(name, counter)

\* Mutant of the while loop: the name is taken as it is.
UniqueFileNameUnchecked(name, usedNames, counter) == name

\* The while loop: the first of name, name_counter, name_(counter+1), ...
\* that is not in usedNames.
RECURSIVE UniqueFileNameFrom(_, _, _, _)
UniqueFileNameFrom(name, fileName, usedNames, counter) ==
  IF fileName \in usedNames
  THEN UniqueFileNameFrom(name, WithCounter(name, counter), usedNames, counter + 1)
  ELSE fileName

UniqueFileName(name, usedNames, counter) ==
  UniqueFileNameFrom(name, name, usedNames, counter)

\* zip.file(`${fileName}.png`, data): an entry of that name is replaced.
ZipFile(entries, fileName, data) ==
  IF \E k \in 1..Len(entries) : entries[k].fileName = fileName
  THEN [k \in 1..Len(entries) |->
          IF entries[k].fileName = fileName
          THEN [fileName |-> fileName, ext |-> "png", data |-> data] ELSE entries[k]]
  ELSE Append(entries, [fileName |-> fileName, ext |-> "png", data |-> data])

\* segments.forEach from index i on.
RECURSIVE ZipEach(_, _, _, _)
ZipEach(segs, i, usedNames, entries) ==
  IF i > Len(segs) THEN entries
  ELSE LET fileName == UniqueFileName(segs[i].name, usedNames, 1)
       IN  ZipEach(segs, i + 1, usedNames \cup {fileName},
                   ZipFile(entries, fileName, segs[i].dataUrl))

\* The download button, shown in cut mode when there are stickers.
HandleDownloadAll ==
  /\ BetweenTasks
  /\ appMode = "cut"
  /\ Len(segments) > 0
  /\ zip' = [entries |-> ZipEach(segments, 1, {}, <<>>)]
  /\ UNCHANGED <<nameCall, nameResult, uploadCap, canvasOk, printer>>
  /\ UNCHANGED <<mergeVars, sheetVars, nextId, extractVars, appVars>>

\* ---- ZipSpec: the download of a named list
ZipNames ==
  {<<"cat">>, <<"cat", 1>>, <<"cat", 2>>, <<"cat", 1, 1>>, <<"dog">>, <<"sticker">>,
   <<"sticker", 1>>}

\* The k-th sticker of the good sheet's cutouts, named.
Named(k, name) ==
  [ExtractStickerFromRect(GoodSheet, MkRect(1, 7, 1, 8), name, k) EXCEPT !.name = name]

NamedLists ==
  UNION {[1..n -> ZipNames] : n \in 1..MaxZip}

\* App in cut mode after the sheet was cut and the stickers were named.
ZipInit ==
  /\ MergeOff
  /\ SheetOff
  /\ ExtractOff
  /\ nameCall = Null /\ nameResult = Null /\ zip = Null
  /\ uploadCap = MaxUploads /\ canvasOk = AllCanvases /\ printer = Null
  /\ nextId = MaxZip
  /\ appMode = "cut"
  /\ status = StatusComplete
  /\ \E names \in NamedLists :
       segments = [k \in 1..Len(names) |-> Named(k, names[k])]
  /\ originalImage = [src |-> "good.png"]
  /\ originalImageEl = GoodSheet
  /\ isManualCropping = FALSE
  /\ invocations = <<Returned>>
  /\ namings = <<>>
  /\ manualCrop = Null

ZipNext == HandleDownloadAll

ZipSpec == ZipInit /\ [][ZipNext]_vars

\* ---- BatchSpec: the stickers of a generated sheet are being named
\* The k-th sticker as processStickerSheet returns it.
Detected(k) == Named(k, DefaultName(k))

DetectedList(n) == [k \in 1..n |-> Detected(k)]

\* App after processFile has called runAiNaming(detectedSegments) and
\* returned: every sticker is being named, the first batch is in flight.
BatchInit ==
  /\ MergeOff
  /\ SheetOff
  /\ ExtractOff
  /\ nameCall = Null /\ nameResult = Null /\ zip = Null
  /\ uploadCap = MaxUploads /\ canvasOk = AllCanvases /\ printer = Null
  /\ appMode = "cut"
  /\ status = StatusNaming
  /\ \E n \in 1..MaxNamed :
       /\ nextId = n
       /\ segments = [k \in 1..n |-> [Detected(k) EXCEPT !.isNaming = TRUE]]
       /\ namings = << [items |-> [k \in 1..n |-> k],
                        i |-> 0,
                        pending |-> BatchIds(DetectedList(n), 0),
                        completed |-> 0] >>
  /\ originalImage = [src |-> "good.png"]
  /\ originalImageEl = GoodSheet
  /\ isManualCropping = FALSE
  /\ invocations = <<Returned>>
  /\ manualCrop = Null

BatchNext ==
  \/ \E n \in 1..Len(namings) : \E id \in namings[n].pending :
       \E name \in NamingResults : NamingCallReturns(n, id, name)
  \/ OpenManualCrop
  \/ CloseManualCrop
  \/ \E r \in ManualRects : HandleManualCrop(r)
  \/ HandleReset

BatchSpec == BatchInit /\ [][BatchNext]_vars

\* ------------------------------------------------- generateStickerSheet
\* What ai.models.generateContent can do: reject with an Error or with
\* another value, or answer with no candidate parts, or with parts of which
\* some may carry inlineData.
SheetResponses ==
  { [kind |-> "reject", isError |-> TRUE, message |-> <<"fetch failed">>,
     hasParts |-> FALSE, parts |-> <<>>],
    [kind |-> "reject", isError |-> FALSE, message |-> <<>>,
     hasParts |-> FALSE, parts |-> <<>>],
    [kind |-> "response", isError |-> FALSE, message |-> <<>>,
     hasParts |-> FALSE, parts |-> <<>>],
    [kind |-> "response", isError |-> FALSE, message |-> <<>>,
     hasParts |-> TRUE, parts |-> <<>>],
    [kind |-> "response", isError |-> FALSE, message |-> <<>>,
     hasParts |-> TRUE, parts |-> <<"text">>],
    [kind |-> "response", isError |-> FALSE, message |-> <<>>,
     hasParts |-> TRUE, parts |-> <<"text", "inlineData">>],
    [kind |-> "response", isError |-> FALSE, message |-> <<>>,
     hasParts |-> TRUE, parts |-> <<"inlineData">>] }

Pending == [settled |-> "pending", isError |-> FALSE, message |-> <<>>]
Failure(isError, message) ==
  [settled |-> "rejected", isError |-> isError, message |-> message]
DataUrl == [settled |-> "resolved", isError |-> FALSE, message |-> <<>>]

NoCall == [pc |-> "none", requests |-> 0, outcome |-> Pending]

\* generateStickerSheet up to its await: without a client it throws at
\* once, with one it sends the request.
GenerateStickerSheet(userApiKey, envKey, storedKey) ==
  IF GetAiClient(userApiKey, envKey, storedKey) = Null
  THEN [pc |-> "settled", requests |-> 0,
        outcome |-> Failure(TRUE, <<"API_KEY is not set">>)]
  ELSE [pc |-> "request", requests |-> 1, outcome |-> Pending]

\* A variant that sends the request again when it has failed.
GenerateContentSettlesRetrying(call, response) ==
  IF response.kind = "response" /\ response.hasParts
     /\ \E i \in 1..Len(response.parts) : response.parts[i] = "inlineData"
  THEN [call EXCEPT !.pc = "settled", !.outcome = DataUrl]
  ELSE IF call.requests < 2
  THEN [call EXCEPT !.requests = @ + 1]
  ELSE [call EXCEPT !.pc = "settled",
                    !.outcome = Failure(TRUE, <<"No image returned from generation">>)]

\* generateStickerSheet after its await: the first part with inlineData is
\* returned as a data URL; with none it throws; the catch throws again what
\* was thrown.
GenerateContentSettles(call, response) ==
  IF response.kind = "reject"
  THEN [call EXCEPT !.pc = "settled",
                    !.outcome = Failure(response.isError, response.message)]
  ELSE IF response.hasParts
          /\ \E i \in 1..Len(response.parts) : response.parts[i] = "inlineData"
  THEN [call EXCEPT !.pc = "settled", !.outcome = DataUrl]
  ELSE [call EXCEPT !.pc = "settled",
                    !.outcome = Failure(TRUE, <<"No image returned from generation">>)]

\* ------------------------------------------------------- CutePrinter2D
\* The message shown for a thrown value that is no Error.
DefaultError == <<"generation failed, please retry">>

\* reader.onload of processImageFile
ProcessImageFile ==
  /\ printer # Null
  /\ printer' = [printer EXCEPT !.referenceImage = TRUE, !.error = <<>>]
  /\ UNCHANGED <<nameCall, nameResult, zip, uploadCap, canvasOk>>
  /\ UNCHANGED <<mergeVars, sheetVars, nextId, extractVars, appVars>>

\* handleReset of the printer, offered with a reference image while idle
PrinterHandleReset ==
  /\ printer # Null
  /\ printer.referenceImage /\ ~printer.isGenerating
  /\ printer' = [printer EXCEPT !.referenceImage = FALSE, !.error = <<>>]
  /\ UNCHANGED <<nameCall, nameResult, zip, uploadCap, canvasOk>>
  /\ UNCHANGED <<mergeVars, sheetVars, nextId, extractVars, appVars>>

\* onChange of the key input: handleApiKeyChange stores the key, and a
\* key that is not blank clears the error.
ApiKeyChange(key) ==
  /\ printer # Null
  /\ key # printer.apiKey
  /\ printer' = [printer EXCEPT !.apiKey = key, !.storedKey = key,
                                !.error = IF key # "" THEN <<>> ELSE @]
  /\ UNCHANGED <<nameCall, nameResult, zip, uploadCap, canvasOk>>
  /\ UNCHANGED <<mergeVars, sheetVars, nextId, extractVars, appVars>>

\* handleGenerate up to its await.  It returns at once without a reference
\* image, and its button is disabled while generating.  The button is also
\* disabled while no key is typed in; the handler is taken for every key,
\* so that the branch of generateStickerSheet for no credential is entered.
HandleGenerateClicked ==
  /\ printer # Null
  /\ printer.referenceImage
  /\ ~printer.isGenerating
  /\ printer.generations < MaxGenerations
  /\ printer' = [printer EXCEPT
                   !.isGenerating = TRUE,
                   !.error = <<>>,
                   !.generations = @ + 1,
                   !.call = GenerateStickerSheet(printer.apiKey, printer.envKey,
                                                 printer.storedKey)]
  /\ UNCHANGED <<nameCall, nameResult, zip, uploadCap, canvasOk>>
  /\ UNCHANGED <<mergeVars, sheetVars, nextId, extractVars, appVars>>

\* The remote request settles.
RequestSettles(response) ==
  /\ printer # Null
  /\ printer.call.pc = "request"
  /\ printer' = [printer EXCEPT !.call = GenerateContentSettles(@, response)]
  /\ UNCHANGED <<nameCall, nameResult, zip, uploadCap, canvasOk>>
  /\ UNCHANGED <<mergeVars, sheetVars, nextId, extractVars, appVars>>

\* handleGenerate after its await: onGenerated with the URL, or the catch
\* sets the error; finally isGenerating is cleared.
HandleGenerateResumes ==
  /\ printer # Null
  /\ printer.call.pc = "settled"
  /\ LET outcome == printer.call.outcome
     IN  printer' = [printer EXCEPT
           !.onGenerated = IF outcome.settled = "resolved" THEN @ + 1 ELSE @,
           !.error = IF outcome.settled = "resolved" THEN @
                     ELSE IF outcome.isError THEN outcome.message
                     ELSE DefaultError,
           !.isGenerating = FALSE,
           !.call = NoCall]
  /\ UNCHANGED <<nameCall, nameResult, zip, uploadCap, canvasOk>>
  /\ UNCHANGED <<mergeVars, sheetVars, nextId, extractVars, appVars>>

\* ---- PrinterSpec: the printer alone, with its onGenerated calls counted
PrinterInit ==
  /\ MergeOff
  /\ SheetOff
  /\ ExtractOff
  /\ AppConstructed
  /\ nextId = 0
  /\ nameCall = Null /\ nameResult = Null /\ zip = Null
  /\ uploadCap = MaxUploads /\ canvasOk = AllCanvases
  /\ \E key \in Keys : \E envKey \in Keys :
       printer = [referenceImage |-> FALSE, apiKey |-> key, storedKey |-> key,
                  envKey |-> envKey, isGenerating |-> FALSE, error |-> <<>>,
                  generations |-> 0, onGenerated |-> 0, call |-> NoCall]

PrinterNext ==
  \/ ProcessImageFile
  \/ PrinterHandleReset
  \/ \E key \in Keys : ApiKeyChange(key)
  \/ HandleGenerateClicked
  \/ \E response \in SheetResponses : RequestSettles(response)
  \/ HandleGenerateResumes

PrinterSpec == PrinterInit /\ [][PrinterNext]_vars

\* ---- NameSpec: one call of generateStickerName
NameInit ==
  /\ MergeOff
  /\ SheetOff
  /\ ExtractOff
  /\ AppConstructed
  /\ nextId = 0
  /\ nameCall \in NameCalls
  /\ nameResult = Null
  /\ zip = Null /\ uploadCap = MaxUploads /\ canvasOk = AllCanvases /\ printer = Null

NameSettles ==
  /\ nameCall # Null
  /\ nameResult = Null
  /\ nameResult' = GenerateStickerName(nameCall)
  /\ UNCHANGED <<nameCall, zip, uploadCap, canvasOk, printer>>
  /\ UNCHANGED <<mergeVars, sheetVars, nextId, extractVars, appVars>>

NameNext == NameSettles

NameSpec == NameInit /\ [][NameNext]_vars

\* =================================================================
\* Properties of mergeRects (MergeSpec)
\* =================================================================
\* The axis-aligned gap of two closed intervals, zero when they overlap.
Gap(aMin, aMax, bMin, bMax) == Max3(0, bMin - aMax, aMin - bMax)

WithinTau(a, b, t) ==
  /\ Gap(a.minX, a.maxX, b.minX, b.maxX) < t
  /\ Gap(a.minY, a.maxY, b.minY, b.maxY) < t

Contains(outer, inner) ==
  /\ outer.minX <= inner.minX /\ inner.maxX <= outer.maxX
  /\ outer.minY <= inner.minY /\ inner.maxY <= outer.maxY

\* Number of pixel columns (rows) lying strictly between two inclusive
\* intervals; -1 when the intervals share a column (row).
PixelsBetween(aMin, aMax, bMin, bMax) ==
  IF aMax < bMin THEN bMin - aMax - 1
  ELSE IF bMax < aMin THEN aMin - bMax - 1
  ELSE -1

\* Two input rectangles with the same number g >= 0 of background columns
\* and of background rows strictly between them.
TwoApart(g) ==
  /\ Len(rects) = 2
  /\ g >= 0
  /\ PixelsBetween(rects[1].minX, rects[1].maxX, rects[2].minX, rects[2].maxX) = g
  /\ PixelsBetween(rects[1].minY, rects[1].maxY, rects[2].minY, rects[2].maxY) = g

GapRange == 0..(MaxX + MaxRow)

\* C1: the list returned by mergeRects contains no two distinct rectangles
\* whose gap is below the threshold in X and in Y at the same time.
C1_NoClosePairs ==
  mpc = "done" =>
    \A i, j \in 1..Len(merged) : i # j => ~WithinTau(merged[i], merged[j], tau)

\* C1 witness: mergeRects returned after at least one merging pass, and two
\* of the returned rectangles are near in X yet far in Y.
C1_Witness ==
  /\ mpc = "done" /\ passes >= 2
  /\ \E i, j \in 1..Len(merged) :
       /\ i # j
       /\ Gap(merged[i].minX, merged[i].maxX, merged[j].minX, merged[j].maxX) < tau
       /\ Gap(merged[i].minY, merged[i].maxY, merged[j].minY, merged[j].maxY) >= tau

\* C2 (as stated): two rectangles with g background columns and g background
\* rows strictly between them are merged into their union by every threshold
\* above g and returned unchanged by every threshold up to g.
C2_Original ==
  mpc = "done" =>
    \A g \in GapRange :
      TwoApart(g) =>
        IF tau > g THEN merged = <<UnionRect(rects[1], rects[2])>>
        ELSE merged = rects

\* C2 (amended): two rectangles with g background columns and g background
\* rows strictly between them are merged into their union by every threshold
\* above g + 1 and returned unchanged by every threshold up to g + 1: the
\* distance the code compares with the threshold is other.min - this.max,
\* one more than the number of pixels in between.
C2_GapThreshold ==
  mpc = "done" =>
    \A g \in GapRange :
      TwoApart(g) =>
        IF tau > g + 1
        THEN merged = <<MkRect(Min2(rects[1].minX, rects[2].minX),
                               Max2(rects[1].maxX, rects[2].maxX),
                               Min2(rects[1].minY, rects[2].minY),
                               Max2(rects[1].maxY, rects[2].maxY))>>
        ELSE merged = rects

\* C2 witness: two rectangles g pixels apart in both axes, merged by the
\* threshold g + 2.
C2_Witness ==
  /\ mpc = "done"
  /\ \E g \in GapRange : TwoApart(g) /\ tau = g + 2 /\ Len(merged) = 1

\* C3: whenever input rectangles A, B, C (at any three positions of the
\* list) have A near B and B near C, one returned rectangle contains all
\* three.
C3_Transitive ==
  mpc = "done" =>
    \A a, b, c \in 1..Len(rects) :
      (/\ a # b /\ b # c /\ a # c
       /\ WithinTau(rects[a], rects[b], tau)
       /\ WithinTau(rects[b], rects[c], tau))
      => \E k \in 1..Len(merged) :
           /\ Contains(merged[k], rects[a])
           /\ Contains(merged[k], rects[b])
           /\ Contains(merged[k], rects[c])

\* C3 witness: the list is A, C, B with A near B, B near C and A not near C,
\* so that the first pass leaves C outside the union of A and B.
C3_Witness ==
  /\ mpc = "done" /\ Len(rects) = 3 /\ Len(merged) = 1 /\ passes = 3
  /\ WithinTau(rects[1], rects[3], tau)
  /\ WithinTau(rects[3], rects[2], tau)
  /\ ~WithinTau(rects[1], rects[2], tau)

\* C4: applying mergeRects to its own result with the same threshold returns
\* that result: same rectangles, same order, same bounds.
C4_Idempotent ==
  mpc = "done" => MergeRects(merged, tau) = merged

\* C4 witness: a result of three rectangles of which two were merged and one
\* was left apart.
C4_Witness ==
  /\ mpc = "done" /\ passes = 2 /\ Len(rects) = 3 /\ Len(merged) = 2

\* =================================================================
\* Properties of the component scan (SheetSpec)
\* =================================================================
\* A background pixel as the specification defines it.
BackgroundPixel(px) == px[4] < 20 \/ (px[1] > 240 /\ px[2] > 240 /\ px[3] > 240)

Foreground(img) ==
  {k \in 0..(img.width * img.height - 1) : ~BackgroundPixel(img.data[k])}

\* The indices 4-adjacent to k in a buffer of width w and height h.
Adjacent4(k, w, h) ==
  (IF k % w < w - 1 THEN {k + 1} ELSE {}) \cup (IF k % w > 0 THEN {k - 1} ELSE {})
  \cup (IF k \div w < h - 1 THEN {k + w} ELSE {}) \cup (IF k \div w > 0 THEN {k - w} ELSE {})

\* The closure of `frontier` under 4-adjacency inside `within`.
RECURSIVE Reach(_, _, _, _, _)
Reach(done, frontier, within, w, h) ==
  LET new == ((UNION {Adjacent4(k, w, h) : k \in frontier}) \cap within) \ done
  IN  IF new = {} THEN done ELSE Reach(done \cup new, new, within, w, h)

\* The maximal 4-connected set of foreground pixels holding k.
ComponentOf(img, k) == Reach({k}, {k}, Foreground(img), img.width, img.height)

MinOf(S) == CHOOSE k \in S : \A j \in S : k <= j
MaxOf(S) == CHOOSE k \in S : \A j \in S : j <= k

\* The components of the pixels in `left`, by their first pixel in row-major
\* order.
RECURSIVE ComponentList(_, _)
ComponentList(img, left) ==
  IF left = {} THEN <<>>
  ELSE LET c == ComponentOf(img, MinOf(left))
       IN  <<c>> \o ComponentList(img, left \ c)

Components(img) == ComponentList(img, Foreground(img))

\* The inclusive bounding box of a set of pixel indices.
BoundingBox(c, w) ==
  MkRect(MinOf({k % w : k \in c}), MaxOf({k % w : k \in c}),
         MinOf({k \div w : k \in c}), MaxOf({k \div w : k \in c}))

PixelWidth(r) == r.maxX - r.minX + 1
PixelHeight(r) == r.maxY - r.minY + 1

\* The components of the sheet with their bounding boxes, in scan order.
ComponentBoxes(img) ==
  LET cs == Components(img)
  IN  [i \in 1..Len(cs) |-> [pixels |-> cs[i], box |-> BoundingBox(cs[i], img.width)]]

BoxesOf(cbs) == [i \in 1..Len(cbs) |-> cbs[i].box]

\* More than 50 pixels in a bounding box more than 5 pixels wide and tall.
LargeEnough(cb) ==
  Cardinality(cb.pixels) > 50 /\ PixelWidth(cb.box) > 5 /\ PixelHeight(cb.box) > 5

\* The sheet is background but for one solid 10 x 10 square at (x0, y0), at
\* least 5 pixels from every border.
SquareSheet(x0, y0) ==
  /\ image # Null
  /\ x0 >= 5 /\ y0 >= 5 /\ x0 + 10 + 5 <= image.width /\ y0 + 10 + 5 <= image.height
  /\ Foreground(image) =
       {k \in 0..(image.width * image.height - 1) :
          /\ x0 <= k % image.width /\ k % image.width < x0 + 10
          /\ y0 <= k \div image.width /\ k \div image.width < y0 + 10}

SquareOrigins == (0..ImgW) \X (0..ImgH)

\* C5: when the scan is over, rawRects holds the bounding boxes of exactly
\* the 4-connected components with more than 50 pixels whose box is more
\* than 5 pixels wide and more than 5 pixels tall (a solid 6 x 10 block is
\* one of them), in scan order.
C5_EmitsLargeComponents ==
  spc = "group" =>
    rawRects = BoxesOf(SelectSeq(ComponentBoxes(image), LargeEnough))

\* C6: every rectangle of rawRects is the inclusive bounding box of one
\* maximal 4-connected component; and on a sheet holding one 10 x 10 square
\* 5 pixels or more from the borders, rawRects is that square's bounds alone
\* and mergeRects returns it unchanged for every threshold.
C6_ExactBoundingBoxes ==
  spc = "group" =>
    /\ LET cs == Components(image)
       IN  \A i \in 1..Len(rawRects) :
             \E j \in 1..Len(cs) : rawRects[i] = BoundingBox(cs[j], image.width)
    /\ \A o \in SquareOrigins :
         SquareSheet(o[1], o[2]) =>
           /\ rawRects = <<MkRect(o[1], o[1] + 9, o[2], o[2] + 9)>>
           /\ \A t \in 0..(MergeDistance + ImgW) : MergeRects(rawRects, t) = rawRects

\* C6 witness: the scan of a sheet with one 10 x 10 square is over.
C6_Witness ==
  spc = "group" /\ \E o \in SquareOrigins : SquareSheet(o[1], o[2])

\* C7: the scan of a buffer of background pixels only (alpha below 20, or
\* red, green and blue all above 240) ends with no rectangle.
C7_BackgroundOnly ==
  (spc = "group" /\ Foreground(image) = {}) => rawRects = <<>>

\* C7 witness: the scan of a buffer holding both transparent and near-white
\* background pixels, and nothing else, is over.
C7_Witness ==
  /\ spc = "group" /\ Foreground(image) = {}
  /\ \E k \in DOMAIN image.data : image.data[k][4] < 20
  /\ \E k \in DOMAIN image.data : image.data[k][4] >= 20

\* The sheet holds exactly three components, each kept by the noise filter,
\* every two of them with MergeDistance or more background columns or rows
\* between their boxes.
ThreeApartOn(cbs) ==
  /\ Len(cbs) = 3
  /\ \A i \in 1..3 : KeepsComponent(Cardinality(cbs[i].pixels),
                                    cbs[i].box.maxX - cbs[i].box.minX,
                                    cbs[i].box.maxY - cbs[i].box.minY)
  /\ \A i, j \in 1..3 :
       i # j =>
         \/ PixelsBetween(cbs[i].box.minX, cbs[i].box.maxX,
                          cbs[j].box.minX, cbs[j].box.maxX) >= MergeDistance
         \/ PixelsBetween(cbs[i].box.minY, cbs[i].box.maxY,
                          cbs[j].box.minY, cbs[j].box.maxY) >= MergeDistance

\* Sticker seg is the cutout made for rectangle r of the sheet.
CutoutOf(seg, r) ==
  /\ seg.originalX = Max2(0, r.minX - 2)
  /\ seg.originalY = Max2(0, r.minY - 2)
  /\ seg.originalX + seg.dataUrl.w > r.maxX
  /\ seg.originalY + seg.dataUrl.h > r.maxY

\* C11: processStickerSheet returns one sticker for each merged rectangle,
\* in the order of the rectangle list; the k-th sticker is named sticker_k,
\* has isNaming false and an id no other returned sticker has.  A sheet with
\* three components kept apart gives three stickers, sticker_1 to sticker_3,
\* in the order in which the row-major scan meets the components.
C11_OnePerRectangleInOrder ==
  spc = "done" =>
    /\ Len(finalSegments) = Len(mergedRects)
    /\ \A k \in 1..Len(finalSegments) :
         /\ finalSegments[k].name = <<"sticker", k>>
         /\ finalSegments[k].isNaming = FALSE
         /\ CutoutOf(finalSegments[k], mergedRects[k])
         /\ \A j \in 1..Len(finalSegments) :
              j # k => finalSegments[j].id # finalSegments[k].id
    /\ LET cbs == ComponentBoxes(image)
       IN  ThreeApartOn(cbs) =>
             /\ Len(finalSegments) = 3
             /\ \A k \in 1..3 : CutoutOf(finalSegments[k], cbs[k].box)

\* C11 witness: a run over three components kept apart has returned, and
\* the first sticker is not the leftmost one.
C11_Witness ==
  /\ spc = "done"
  /\ ThreeApartOn(ComponentBoxes(image))
  /\ Len(finalSegments) = 3
  /\ finalSegments[1].originalX > finalSegments[3].originalX

\* =================================================================
\* Properties of extractStickerFromRect (ExtractSpec)
\* =================================================================
\* Pixel k of the returned cutout as it is in the argSource.
SourcePixel(k) ==
  argSource.data[(returned.originalY + (k \div returned.dataUrl.w)) * argSource.width
              + returned.originalX + (k % returned.dataUrl.w)]

CutoutIndices == 0..(returned.dataUrl.w * returned.dataUrl.h - 1)

BorderIndices ==
  {k \in CutoutIndices :
     \/ k % returned.dataUrl.w = 0 \/ k % returned.dataUrl.w = returned.dataUrl.w - 1
     \/ k \div returned.dataUrl.w = 0 \/ k \div returned.dataUrl.w = returned.dataUrl.h - 1}

CutoutBackground == {k \in CutoutIndices : BackgroundPixel(SourcePixel(k))}

\* The background pixels joined to a border pixel of the crop by a
\* 4-connected path of background pixels.
ExteriorBackground ==
  LET bg == CutoutBackground
      seeds == BorderIndices \cap bg
  IN  Reach(seeds, seeds, bg, returned.dataUrl.w, returned.dataUrl.h)

\* C8: a pixel of the cutout has its alpha set to 0 exactly when it is a
\* background pixel joined to the border of the crop through background
\* pixels; every other pixel, enclosed background included, and every
\* colour channel is as in the argSource.
C8_ExteriorOnly ==
  (xpc = "done" /\ returned # Null) =>
    LET exterior == ExteriorBackground
    IN  \A k \in CutoutIndices :
          returned.dataUrl.pixels[k] =
            IF k \in exterior
            THEN <<SourcePixel(k)[1], SourcePixel(k)[2], SourcePixel(k)[3], 0>>
            ELSE SourcePixel(k)

\* C8 witness: a cutout with an enclosed opaque background pixel that was
\* kept, and an opaque exterior background pixel that was cleared.
C8_Witness ==
  /\ xpc = "done" /\ returned # Null
  /\ LET exterior == ExteriorBackground
     IN  /\ \E k \in CutoutBackground \ exterior :
              returned.dataUrl.pixels[k][4] = 255
         /\ \E k \in exterior :
              SourcePixel(k)[4] = 255 /\ returned.dataUrl.pixels[k][4] = 0

\* C9: the crop is the rectangle grown by 2 pixels on each of its four
\* sides and clamped to the source: columns max(0, minX - 2) to
\* min(width - 1, maxX + 2), rows max(0, minY - 2) to min(height - 1, maxY + 2).
C9_PaddedCrop ==
  xpc = "done" =>
    /\ returned # Null
    /\ returned.originalX = Max2(0, argRect.minX - 2)
    /\ returned.originalX + returned.dataUrl.w - 1 = Min2(argSource.width - 1, argRect.maxX + 2)
    /\ returned.originalY = Max2(0, argRect.minY - 2)
    /\ returned.originalY + returned.dataUrl.h - 1 = Min2(argSource.height - 1, argRect.maxY + 2)

\* =================================================================
\* Properties of the callers of extractStickerFromRect (CropSpec)

\* The crop region the extractor computes for rect has no pixels.
EmptyCrop(source, rect) ==
  CropOf(source, rect).w <= 0 \/ CropOf(source, rect).h <= 0

\* The step is a confirmed manual crop of rectangle r.
ManualCropOf(r) ==
  /\ ModalShown
  /\ originalImageEl # Null
  /\ manualCrop' # Null
  /\ manualCrop' # manualCrop
  /\ manualCrop'.rect = r

\* The step is one turn of the extraction loop of processStickerSheet.
ExtractionTurn == spc = "extract" /\ exti' = exti + 1

EmptyCropSkipped ==
  /\ \A r \in ManualRects :
       (ManualCropOf(r) /\ EmptyCrop(originalImageEl, r)) =>
          /\ manualCrop'.newSegment = Null
          /\ segments' = segments
          /\ status' = status
          /\ namings' = namings
  /\ (ExtractionTurn /\ EmptyCrop(image, mergedRects[exti])) =>
          /\ finalSegments' = finalSegments
          /\ spc' = "extract"
          /\ mergedRects' = mergedRects

\* C10: when the crop region computed for a rectangle has non-positive
\* width or height, the extractor returns null; a manual crop of such a
\* rectangle leaves the segment list (and the status and the pending naming
\* calls) as they were, and the extraction loop of processStickerSheet goes
\* on to the next rectangle without adding a segment and without ending the
\* run.
C10_EmptyCropSkipped ==
  [][EmptyCropSkipped]_vars

\* A manual crop of a rectangle beyond the image came back null while the
\* list of detected stickers was there.
C10_Witness ==
  /\ manualCrop # Null
  /\ manualCrop.newSegment = Null
  /\ originalImageEl # Null
  /\ EmptyCrop(originalImageEl, manualCrop.rect)
  /\ Len(segments) > 0
  /\ isManualCropping

\* The step is the return of a run of processStickerSheet that found nothing
\* to the processFile that called it.
ReturnsNothing == spc = "done" /\ spc' = "off" /\ finalSegments = <<>>

NothingFoundOutcome ==
  ReturnsNothing =>
    /\ status' = StatusNothingFound
    /\ status' # StatusError
    /\ segments' = segments
    /\ namings' = namings
    /\ Len(invocations) = 1 => segments' = <<>>

\* C12: a run that detects nothing returns the empty list, and processFile
\* ends in stage idle with the 'no stickers detected' message, not with the
\* error message; it leaves the segment list as it is (empty, when no other
\* processFile has run) and starts no naming call.
C12_NothingFound ==
  [][NothingFoundOutcome]_vars

\* C12 witness: the run over the blank sheet has ended.
C12_Witness ==
  /\ status = StatusNothingFound
  /\ segments = <<>>
  /\ namings = <<>>
  /\ Len(invocations) = 1 /\ invocations[1] = Returned

\* =================================================================
\* Properties of generateStickerName (NameSpec)
\* =================================================================
\* The call has no credential, or its request is rejected, or the response
\* has no text, text that is not JSON, or JSON without a filename.
NamingFails(call) ==
  \/ call.passedKey = "" /\ call.envKey = "" /\ call.storedKey = ""
  \/ call.response.kind = "reject"
  \/ call.response.text \notin {"{\"filename\":\"cat\"}"}

\* C14: generateStickerName always resolves, never rejects; in every failure
\* case (no credential, rejected request, empty text, text that is not JSON,
\* JSON without a filename) it resolves with exactly "sticker", and otherwise
\* with the filename of the response.
C14_AlwaysResolves ==
  nameResult # Null =>
    /\ nameResult.settled = "resolved"
    /\ NamingFails(nameCall) => nameResult.value = <<"sticker">>
    /\ ~NamingFails(nameCall) => nameResult.value = <<"cat">>

\* C14 witness: a call with a credential whose request was rejected has
\* settled.
C14_Witness ==
  /\ nameResult # Null
  /\ nameCall.storedKey # ""
  /\ nameCall.response.kind = "reject"

\* =================================================================
\* Properties of runAiNaming (CropSpec)
\* =================================================================
\* The step is the return of a failed naming call for sticker id.
FailedNamingReturns(id) ==
  \E n \in 1..Len(namings) :
    \E c \in {c \in NameCalls : NamingFails(c)} :
      /\ id \in namings[n].pending
      /\ NamingCallReturns(n, id, GenerateStickerName(c).value)

KeepsDefaultName ==
  \A k \in 1..Len(segments) :
    FailedNamingReturns(segments[k].id) =>
      /\ Len(segments') = Len(segments)
      /\ segments'[k].name = segments[k].name

\* C13: after a naming call has failed for a sticker, the sticker's name in
\* the segment list is still the default name it was created with.
C13_KeepsDefaultName ==
  [][KeepsDefaultName]_vars

\* =================================================================
\* Properties of handleDownloadAll (ZipSpec)
\* =================================================================
FileNamesBefore(k) == {zip.entries[j].fileName : j \in 1..(k - 1)}

\* The least counter c >= 1 for which name_c is not in used.
LeastFreeCounter(name, used) ==
  CHOOSE c \in 1..(Cardinality(used) + 1) :
    /\ Append(name, c) \notin used
    /\ \A b \in 1..(c - 1) : Append(name, b) \in used

\* C15: the archive holds one entry per sticker, in list order, and no two
\* entries have the same file name; a sticker whose name N no earlier entry
\* has is written as N.png, and otherwise as N_c.png for the least counter
\* c >= 1 that no earlier entry has; two stickers named cat give cat.png and
\* cat_1.png.
C15_UniqueEntries ==
  zip # Null =>
    /\ Len(zip.entries) = Len(segments)
    /\ \A j, k \in 1..Len(zip.entries) : j # k => zip.entries[j].fileName # zip.entries[k].fileName
    /\ \A k \in 1..Len(zip.entries) :
         /\ zip.entries[k].ext = "png"
         /\ zip.entries[k].data = segments[k].dataUrl
         /\ zip.entries[k].fileName =
              IF segments[k].name \notin FileNamesBefore(k) THEN segments[k].name
              ELSE Append(segments[k].name,
                          LeastFreeCounter(segments[k].name, FileNamesBefore(k)))
    /\ (Len(segments) = 2 /\ segments[1].name = <<"cat">> /\ segments[2].name = <<"cat">>)
         => (zip.entries[1].fileName = <<"cat">> /\ zip.entries[2].fileName = <<"cat", 1>>)

\* C15 witness: the list cat, cat_1, cat has been downloaded.
C15_Witness ==
  /\ zip # Null
  /\ Len(segments) = 3
  /\ segments[1].name = <<"cat">>
  /\ segments[2].name = <<"cat", 1>>
  /\ segments[3].name = <<"cat">>
  /\ zip.entries[3].fileName = <<"cat", 2>>

\* =================================================================
\* Properties of overlapping processFile calls (RaceSpec)
\* =================================================================
\* processFile call n, a direct upload, is awaiting the image, the delay or
\* is in its run of processStickerSheet, and call m was made after it (so
\* after a restart) and has begun.
Superseded(n, m) ==
  /\ n < m /\ m <= Len(invocations)
  /\ invocations[n].skipAiNaming
  /\ invocations[n].pc \in {"load", "delay", "sheet"}
  /\ invocations[m].pc # "generate"

\* The step is one of call n: it moves on, or its scan does.
StepOf(n) ==
  /\ Len(invocations') = Len(invocations)
  /\ \/ invocations'[n].pc # invocations[n].pc
     \/ invocations[n].pc = "sheet" /\ spc # "off"

StaleWorkDiscarded ==
  \A n \in 1..Len(invocations) :
    \A m \in 1..Len(invocations) :
      (Superseded(n, m) /\ StepOf(n)) => (segments' = segments /\ status' = status)

\* C16: once the user has restarted and a newer processFile has begun, no
\* later step of an earlier processFile that was still awaiting changes the
\* segment list or the status.
C16_StaleWorkDiscarded ==
  [][StaleWorkDiscarded]_vars

\* =================================================================
\* Properties of generateStickerSheet and handleGenerate (PrinterSpec)
\* =================================================================
NoCredential ==
  GetAiClient(printer.apiKey, printer.envKey, printer.storedKey) = Null

\* A step on which handleGenerate comes back from a failed call.
FailureReturns ==
  /\ printer.call.pc = "settled"
  /\ printer.call.outcome.settled = "rejected"
  /\ printer'.call.pc = "none"

FailureRaisedOnce ==
  /\ printer'.call.requests <= 1
  /\ (printer.call.pc = "none" /\ printer'.call.pc # "none" /\ NoCredential)
       => /\ printer'.call.pc = "settled"
          /\ printer'.call.requests = 0
          /\ printer'.call.outcome = Failure(TRUE, <<"API_KEY is not set">>)
  /\ (printer.call.pc = "request" /\ printer'.call.pc = "settled")
       => printer'.call.requests = 1
  /\ FailureReturns
       => /\ printer'.error # <<>>
          /\ printer.call.outcome.isError
               => printer'.error = printer.call.outcome.message
          /\ printer'.onGenerated = printer.onGenerated
          /\ ~printer'.isGenerating

\* C17: a call of generateStickerSheet sends at most one request (none
\* without a credential), a failure reaches handleGenerate with its message,
\* and handleGenerate then shows the message as the error, does not call
\* onGenerated, and ends with isGenerating false.
C17_FailureRaisedOnce ==
  [][FailureRaisedOnce]_vars

\* Both failures have happened: a first call without a credential, then,
\* with a key typed in, a call whose response carried no image.
C17_Witness ==
  /\ printer # Null
  /\ printer.generations = 2
  /\ printer.call.pc = "none"
  /\ ~printer.isGenerating
  /\ printer.error = <<"No image returned from generation">>
  /\ printer.onGenerated = 0

\* =================================================================
\* Properties of a refused drawing surface (CanvasSpec)
\* =================================================================
CanvasRefused ==
  ~(canvasOk.sheet /\ canvasOk.cutout /\ canvasOk.silhouette /\ canvasOk.final)

\* processFile call n ends on this step, after its image was loaded.
ProcessingEnds(n) ==
  /\ n <= Len(invocations) /\ Len(invocations') = Len(invocations)
  /\ invocations[n].pc \in {"delay", "sheet"}
  /\ invocations'[n].pc = "done"

\* The surface was needed: the sheet canvas always is, the three canvases
\* of extractStickerFromRect once there is a rectangle to extract.
SurfaceNeeded(n) ==
  \/ ~canvasOk.sheet
  \/ /\ invocations[n].pc = "sheet"
     /\ mergedRects # <<>>
     /\ ~(canvasOk.cutout /\ canvasOk.silhouette /\ canvasOk.final)

RefusalIsAnError ==
  \A n \in 1..Len(invocations) :
    (CanvasRefused /\ ProcessingEnds(n) /\ SurfaceNeeded(n)) => status' = StatusError

\* C18: when a drawing surface that the processing of an image needs cannot
\* be obtained, the processing of that image ends in the error outcome, not
\* in a normal or an empty result.
C18_RefusalIsAnError ==
  [][RefusalIsAnError]_vars

\* =================================================================
\* Each pixel is pushed, popped and counted once (SheetSpec)
\* =================================================================
\* The pixel indices on a flood-fill stack.
OnStack(stk, w) == {stk[i][2] * w + stk[i][1] : i \in 1..Len(stk)}

\* The scan starts a fill at a pixel that was never marked, and none of the
\* pixels of its component has been counted before.
FillStartsFresh ==
  (spc = "scan" /\ spc' = "fill")
    => /\ scanAt' \notin visited
       /\ visited' = visited \cup {scanAt'}
       /\ stack' = << <<scanAt' % image.width, scanAt' \div image.width>> >>
       /\ box'.count = 0
       /\ ComponentOf(image, scanAt') \cap visited = {}

\* One pop counts one pixel, which is marked and is not on the stack again;
\* the pixels pushed are exactly the ones newly marked, all foreground.
PopCountsOnce ==
  (spc = "fill" /\ spc' = "fill")
    => LET top == stack[Len(stack)]
           rest == SubSeq(stack, 1, Len(stack) - 1)
           pushed == visited' \ visited
       IN  /\ box'.count = box.count + 1
           /\ top[2] * image.width + top[1] \in visited
           /\ visited \subseteq visited'
           /\ Len(stack') = Len(rest) + Cardinality(pushed)
           /\ SubSeq(stack', 1, Len(rest)) = rest
           /\ OnStack(stack', image.width) = OnStack(rest, image.width) \cup pushed
           /\ Cardinality(OnStack(stack', image.width)) = Len(stack')
           /\ pushed \subseteq Foreground(image)

\* When a fill ends, its count is the size of the component of its first
\* pixel, all of it marked.
FillCountsComponent ==
  (spc = "fill" /\ spc' = "scan")
    => /\ box.count = Cardinality(ComponentOf(image, scanAt))
       /\ ComponentOf(image, scanAt) \subseteq visited
       /\ visited' = visited

\* When the scan ends, the pixels marked are the non-background pixels: with
\* every fill counting its component, the counts add up to their number.
ScanCountsForeground ==
  (spc = "scan" /\ spc' = "group") => visited = Foreground(image)

OncePerPixel ==
  /\ FillStartsFresh
  /\ PopCountsOnce
  /\ FillCountsComponent
  /\ ScanCountsForeground

\* C19: in the component scan a pixel is marked visited when it is pushed and
\* never pushed again, so it is popped and counted once; a fill counts
\* exactly the pixels of one component, no pixel belongs to two fills, and at
\* the end of the scan the counted pixels are the non-background pixels.
C19_OncePerPixel ==
  [][OncePerPixel]_vars

\* The scan of a sheet with several components has ended.
C19_Witness ==
  /\ spc = "group"
  /\ Len(Components(image)) >= 2
  /\ visited = Foreground(image)
  /\ stack = <<>>

\* =================================================================
\* What the completion of a naming call changes (BatchSpec)
\* =================================================================
\* The ids whose naming calls are in flight.
InFlight == UNION {namings[n].pending : n \in 1..Len(namings)}

\* A naming call completes on this step: a call in flight is no more.
NamingCompletes ==
  /\ Len(namings') <= Len(namings)
  /\ namings' # namings

\* The entry after is the entry before but for name and isNaming.
SameButName(before, after) ==
  /\ after.id = before.id
  /\ after.dataUrl = before.dataUrl
  /\ after.originalX = before.originalX
  /\ after.originalY = before.originalY
  /\ after.width = before.width
  /\ after.height = before.height

OnlyTheNamedEntry ==
  NamingCompletes =>
    /\ Len(segments') = Len(segments)
    /\ \E s \in InFlight :
         \A k \in 1..Len(segments) :
           IF segments[k].id = s
           THEN /\ SameButName(segments[k], segments'[k])
                /\ ~segments'[k].isNaming
                /\ segments'[k].name \in NamingResults
           ELSE segments'[k] = segments[k]

\* C20: the completion of the naming call for sticker s changes the name
\* and isNaming of the entry with id s and nothing else of the segment list;
\* so the names set by the calls that completed before it, in whatever
\* order, are kept.
C20_OnlyTheNamedEntry ==
  [][OnlyTheNamedEntry]_vars

\* Two calls of one batch have completed out of list order, a third of the
\* batch is in flight: the second and the third sticker carry the names they
\* were given, the first is still being named.
C20_Witness ==
  /\ Len(segments) >= 3
  /\ Len(namings) = 1
  /\ namings[1].pending = {1}
  /\ segments[1].isNaming
  /\ ~segments[2].isNaming /\ segments[2].name \in NamingResults
  /\ ~segments[3].isNaming /\ segments[3].name \in NamingResults
  /\ segments[2].name # segments[3].name

\* =================================================================
\* Stage complete and stickers still being named (BatchSpec)
\* =================================================================
\* C21: while the status is in stage complete, no sticker of the segment
\* list has isNaming set.
C21_CompleteMeansNamed ==
  status.stage = "complete" => \A k \in 1..Len(segments) : ~segments[k].isNaming

\* =================================================================
\* Termination of mergeRects (MergeLiveSpec)
\* =================================================================
\* The passes so far that performed a merge: all of them while the flag is
\* set, all but the last once a pass has left it clear.
MergingPasses == IF changed THEN passes ELSE passes - 1

\* A pass that merges returns a strictly shorter list, a pass that does not
\* returns a list of the same length.
PassShortens ==
  (mpc = "loop" /\ passes' = passes + 1)
    => /\ changed' => Len(merged') < Len(merged)
       /\ ~changed' => Len(merged') = Len(merged)

PassesBounded ==
  /\ MergingPasses <= Max2(Len(rects) - 1, 0)
  /\ mpc = "done" => passes = MergingPasses + 1

\* C22: mergeRects returns for every input list and threshold; each pass that
\* merges shortens the list, so a list of k rectangles sees at most k - 1
\* merging passes (none for an empty list) and then one pass without a merge.
C22_Terminates ==
  /\ [][PassShortens]_vars
  /\ []PassesBounded
  /\ <>(mpc = "done")

\* The bound is met: three rectangles, two merging passes and the final one.
C22_Witness ==
  /\ mpc = "done"
  /\ Len(rects) = 3
  /\ MergingPasses = 2
  /\ passes = 3

\* =================================================================
\* Coverage kept by mergeRects (MergeSpec)
\* =================================================================
WellFormed(r) == r.minX <= r.maxX /\ r.minY <= r.maxY

\* C24: every input rectangle lies inside some rectangle of the list that
\* mergeRects returns, every returned rectangle has minX <= maxX and
\* minY <= maxY when the inputs have, and the returned list is no longer
\* than the input list.
C24_KeepsCoverage ==
  mpc = "done" =>
    /\ \A i \in 1..Len(rects) : \E k \in 1..Len(merged) : Contains(merged[k], rects[i])
    /\ (\A i \in 1..Len(rects) : WellFormed(rects[i]))
         => \A k \in 1..Len(merged) : WellFormed(merged[k])
    /\ Len(merged) <= Len(rects)

\* Of three rectangles the first was grown by the second, and the third was
\* returned as it came.
C24_Witness ==
  /\ mpc = "done"
  /\ Len(rects) = 3 /\ Len(merged) = 2
  /\ merged[1] # rects[1]
  /\ Contains(merged[1], rects[1]) /\ Contains(merged[1], rects[2])
  /\ merged[2] = rects[3]

\* =================================================================
\* The batches of runAiNaming (BatchSpec)
\* =================================================================
\* The ids of the batch that runAiNaming call nm is at.
CurrentBatch(nm) ==
  {nm.items[k] : k \in {k \in 1..Len(nm.items) : nm.i < k /\ k <= nm.i + BatchSize}}

\* At most 3 calls are in flight, all of the current batch; the calls
\* completed are the whole of the earlier batches and the rest of this one.
OneBatchInFlight ==
  \A n \in 1..Len(namings) :
    LET nm == namings[n]
    IN  /\ Cardinality(nm.pending) <= 3
        /\ nm.pending # {}
        /\ nm.pending \subseteq CurrentBatch(nm)
        /\ nm.completed = nm.i + Cardinality(CurrentBatch(nm) \ nm.pending)

\* A runAiNaming call ends, and only then sets stage complete, on the return
\* of the last call in flight of its last batch.
CompleteAfterLastBatch ==
  /\ Len(namings') < Len(namings)
       => /\ status'.stage = "complete"
          /\ \E n \in 1..Len(namings) :
               /\ Cardinality(namings[n].pending) = 1
               /\ namings[n].i + BatchSize >= Len(namings[n].items)
               /\ namings' = [k \in 1..(Len(namings) - 1) |->
                                IF k < n THEN namings[k] ELSE namings[k + 1]]
  /\ (Len(namings') = Len(namings) /\ namings' # namings)
       => status'.stage = status.stage

\* C25: a runAiNaming call has at most 3 naming calls in flight, starts no
\* call of the next batch before every call of the current batch has
\* completed, and sets stage complete only when its last batch has completed.
C25_BatchesInTurn ==
  /\ []OneBatchInFlight
  /\ [][CompleteAfterLastBatch]_vars

\* The first batch of three has completed and the second batch, the fourth
\* sticker alone, is in flight.
C25_Witness ==
  /\ Len(namings) = 1
  /\ Len(namings[1].items) = 4
  /\ namings[1].i = BatchSize
  /\ namings[1].completed = 3
  /\ namings[1].pending = {4}
  /\ status.stage = "ai_naming"

\* =================================================================
\* processFile leaves the processing stages (ProcessLiveSpec)
\* =================================================================
\* A processFile call is between its start and its return, or a runAiNaming
\* call has naming calls in flight.
Working ==
  \/ \E n \in 1..Len(invocations) : invocations[n].pc \in {"load", "delay", "sheet"}
  \/ namings # <<>>

Settled == status.stage \in {"idle", "complete"}

\* A processFile call ends from before its scan: the image failed to load or
\* processStickerSheet threw.
ExceptionEndsIdle ==
  \A n \in 1..Len(invocations) :
    (/\ Len(invocations') = Len(invocations)
     /\ invocations[n].pc \in {"load", "delay"}
     /\ invocations'[n].pc = "done")
    => /\ status'.stage = "idle"
       /\ status'.message = <<"error processing image">>

\* C23: with the image load settling and the naming calls returning, the
\* work of processFile and runAiNaming comes to an end, and whenever none is
\* under way the stage is idle or complete; a failed load or a throwing
\* processStickerSheet ends in stage idle with the error message.
C23_LeavesProcessing ==
  /\ [](~Working => Settled)
  /\ Working ~> (~Working /\ Settled)
  /\ [][ExceptionEndsIdle]_vars

\* A generated sheet was cut and its sticker named: the work is over and the
\* stage is complete.
C23_Witness ==
  /\ ~Working
  /\ Len(invocations) >= 1
  /\ status.stage = "complete"
  /\ Len(segments) >= 1
  /\ segments[1].name \in NamingResults
  /\ ~segments[1].isNaming

====
